---------------------------- MODULE Spec2Model ----------------------------
(***************************************************************************)
(* A model of gdoc2md: the conversion of a Google Docs tab to Markdown     *)
(* (ConvertTab and its helpers) and the export pipeline (ExportDoc: flatten *)
(* the tab tree, convert the tabs in parallel, download the images through *)
(* a semaphore, write the Markdown files and the index).                    *)
(*                                                                         *)
(* Go strings on which the code computes (contents, titles, URIs, file     *)
(* names, the Markdown buffer) are sequences of one-character strings;     *)
(* identifiers that are only compared (list ids, object ids, glyph types,  *)
(* named styles) are TLA+ strings.  A Go pointer or optional field is a    *)
(* sequence of length 0 (nil) or 1.                                        *)
(***************************************************************************)
EXTENDS Integers, Sequences, FiniteSets, TLC

VARIABLES
    \* ---- ExportDoc ----
    doc,        \* doc.Tabs, the tab tree returned by the fetch
    badURIs,    \* environment: the URIs whose download fails
    ctxDone,    \* whether the context given to ExportDoc is cancelled
    pc,         \* position of ExportDoc's own goroutine
    tabs,       \* flattenTabs(doc.Tabs)
    dirs,       \* directories created so far
    spawned,    \* number of tab tasks started by the g.Go loop
    tpc,        \* position of each tab task
    tlocal,     \* each tab task's local title, filename, result
    results,    \* the results slice
    allImages,  \* the collected imageDownload list
    dpc,        \* position of each download task
    sem,        \* number of tokens in the sem channel
    gctxDone,   \* whether downloadImages' group context gctx is cancelled
    gerr,       \* the first non-nil error a download task returned to the group
    warnings,   \* downloadImages' warnings slice
    fs,         \* files on disk: path -> content
    wi,         \* index of the loop that writes the Markdown files
    writes,     \* the paths os.WriteFile created or truncated, in order
    retErr,     \* ExportDoc's return value once it returned
    \* ---- one ConvertTab call, element by element ----
    cv,         \* the converter
    ctab,       \* the tab the converter was made for
    last,       \* the structural element converted last
    hist,       \* the elements converted since the last paragraph without a bullet
    outs,       \* the text each element of hist appended to the buffer
    prior,      \* the ListId of the last list item before that paragraph
    \* ---- flattenTabs alone ----
    ftree,      \* the argument
    fout,       \* the result
    fagain,     \* the result of the call on the tabs of fout, taken without children
    \* ---- renderTextRun and convertTable alone ----
    run,        \* the text run given to renderTextRun
    rout,       \* the string returned
    tbl,        \* the table given to convertTable
    tout        \* the text convertTable appended to the buffer

exportVars == <<doc, badURIs, ctxDone, pc, tabs, dirs, spawned, tpc, tlocal, results,
                allImages, dpc, sem, gctxDone, gerr, warnings, fs, wi, writes, retErr>>
convVars == <<cv, ctab, last, hist, outs, prior>>
flatVars == <<ftree, fout, fagain>>
pureVars == <<run, rout, tbl, tout>>
vars == <<exportVars, convVars, flatVars, pureVars>>

-----------------------------------------------------------------------------
(* Bounds of the model *)

\* tabs in a document tree of the export pipeline
MaxTabs == 2
\* structural elements converted between two paragraphs without a bullet
MaxBody == 5
\* deepest nesting level of a list item
MaxLevel == 1
\* tabs in a tree given to flattenTabs alone
MaxFlatTabs == 5
\* rows of a table given to convertTable alone
MaxRows == 2
\* cells of a row of such a table
MaxCols == 2

-----------------------------------------------------------------------------
(* Optional values and small helpers *)

Nil == <<>>
Some(x) == <<x>>

Min(S) == CHOOSE x \in S : \A y \in S : x <= y
Max(S) == CHOOSE x \in S : \A y \in S : x >= y

Range(s) == {s[i] : i \in DOMAIN s}

\* the value of a Go map at a key, with the "ok" of the two-valued lookup
HasKey(m, k) == k \in DOMAIN m

-----------------------------------------------------------------------------
(* package strings, fmt *)

NL == <<"\n">>

\* the character U+0060, which a TLA+ string cannot hold
Backtick == "BACKTICK"

\* unicode.IsSpace on the characters of the model
IsSpace(ch) == ch \in {" ", "\t", "\n", "\r"}

\* strings.TrimSpace
TrimSpace(s) ==
    LET keep == {i \in 1..Len(s) : ~IsSpace(s[i])}
    IN  IF keep = {} THEN <<>> ELSE SubSeq(s, Min(keep), Max(keep))

\* strings.TrimRight(s, "\n")
TrimRightNL(s) ==
    LET keep == {i \in 1..Len(s) : s[i] # "\n"}
    IN  IF keep = {} THEN <<>> ELSE SubSeq(s, 1, Max(keep))

\* strings.HasSuffix(s, "\n")
HasSuffixNL(s) == Len(s) > 0 /\ s[Len(s)] = "\n"

\* strings.Repeat
RECURSIVE Repeat(_, _)
Repeat(s, n) == IF n <= 0 THEN <<>> ELSE s \o Repeat(s, n - 1)

\* strings.ReplaceAll(s, old, new) for a one-character old
RECURSIVE ReplaceAll(_, _, _)
ReplaceAll(s, old, new) ==
    IF s = <<>> THEN <<>>
    ELSE (IF Head(s) = old THEN new ELSE <<Head(s)>>) \o ReplaceAll(Tail(s), old, new)

\* strings.Contains
Contains(s, sub) ==
    \E i \in 0..(Len(s) - Len(sub)) : SubSeq(s, i + 1, i + Len(sub)) = sub

Upper == <<"A","B","C","D","E","F","G","H","I","J","K","L","M",
           "N","O","P","Q","R","S","T","U","V","W","X","Y","Z">>
Lower == <<"a","b","c","d","e","f","g","h","i","j","k","l","m",
           "n","o","p","q","r","s","t","u","v","w","x","y","z">>

\* strings.ToLower
ToLower(s) ==
    [i \in 1..Len(s) |->
        IF \E k \in 1..26 : Upper[k] = s[i]
        THEN Lower[CHOOSE k \in 1..26 : Upper[k] = s[i]]
        ELSE s[i]]

Digits == <<"0","1","2","3","4","5","6","7","8","9">>

\* fmt's %d of a non-negative integer
RECURSIVE Itoa(_)
Itoa(n) == IF n < 10 THEN <<Digits[n + 1]>> ELSE Itoa(n \div 10) \o <<Digits[(n % 10) + 1]>>

\* fmt's %03d of a non-negative integer
Pad3(n) == LET d == Itoa(n) IN Repeat(<<"0">>, 3 - Len(d)) \o d

\* strings.Join
RECURSIVE Join(_, _)
Join(ss, sep) ==
    IF ss = <<>> THEN <<>>
    ELSE IF Len(ss) = 1 THEN ss[1]
    ELSE ss[1] \o sep \o Join(Tail(ss), sep)

-----------------------------------------------------------------------------
(* converter.go: leaf helpers *)

\* a mapping that puts SUBTITLE at level 1 and knows no TITLE
headingLevelFromStyleNoTitle(style) ==
    CASE style = "HEADING_1" -> 1
      [] style = "HEADING_2" -> 2
      [] style = "HEADING_3" -> 3
      [] style = "HEADING_4" -> 4
      [] style = "HEADING_5" -> 5
      [] style = "HEADING_6" -> 6
      [] style = "SUBTITLE" -> 1
      [] OTHER -> 0

headingLevelFromStyle(style) ==
    CASE style = "HEADING_1" -> 1
      [] style = "HEADING_2" -> 2
      [] style = "HEADING_3" -> 3
      [] style = "HEADING_4" -> 4
      [] style = "HEADING_5" -> 5
      [] style = "HEADING_6" -> 6
      [] style = "TITLE" -> 1
      [] style = "SUBTITLE" -> 2
      [] OTHER -> 0

\* a test that knows the arabic numbering alone
isOrderedGlyphDecimalOnly(glyphType) == glyphType \in {"DECIMAL", "ZERO_DECIMAL"}

isOrderedGlyph(glyphType) ==
    glyphType \in {"DECIMAL", "ALPHA", "UPPER_ALPHA", "ROMAN", "UPPER_ROMAN", "ZERO_DECIMAL"}

MonoFamilies == {
    <<"c", "o", "u", "r", "i", "e", "r", " ", "n", "e", "w">>,
    <<"c", "o", "n", "s", "o", "l", "a", "s">>,
    <<"r", "o", "b", "o", "t", "o", " ", "m", "o", "n", "o">>,
    <<"s", "o", "u", "r", "c", "e", " ", "c", "o", "d", "e", " ", "p", "r", "o">>,
    <<"f", "i", "r", "a", " ", "c", "o", "d", "e">>,
    <<"j", "e", "t", "b", "r", "a", "i", "n", "s", " ", "m", "o", "n", "o">>,
    <<"u", "b", "u", "n", "t", "u", " ", "m", "o", "n", "o">>,
    <<"i", "b", "m", " ", "p", "l", "e", "x", " ", "m", "o", "n", "o">>,
    <<"d", "e", "j", "a", "v", "u", " ", "s", "a", "n", "s", " ", "m", "o", "n", "o">>,
    <<"m", "e", "n", "l", "o">>,
    <<"m", "o", "n", "a", "c", "o">>,
    <<"a", "n", "d", "a", "l", "e", " ", "m", "o", "n", "o">> }

isMonospace(style) ==
    IF style.WeightedFontFamily = Nil THEN FALSE
    ELSE LET family == ToLower(style.WeightedFontFamily[1].FontFamily)
         IN  \/ family \in MonoFamilies
             \/ Contains(family, <<"m", "o", "n", "o">>)
             \/ Contains(family, <<"c", "o", "u", "r", "i", "e", "r">>)

guessImageExtension(uri) ==
    LET lower == ToLower(uri)
    IN  IF Contains(lower, <<".", "p", "n", "g">>) THEN <<".", "p", "n", "g">>
        ELSE IF Contains(lower, <<".", "g", "i", "f">>) THEN <<".", "g", "i", "f">>
        ELSE IF Contains(lower, <<".", "s", "v", "g">>) THEN <<".", "s", "v", "g">>
        ELSE IF Contains(lower, <<".", "w", "e", "b", "p">>) THEN <<".", "w", "e", "b", "p">>
        ELSE <<".", "j", "p", "g">>

-----------------------------------------------------------------------------
(* converter.go: the converter *)

\* the zero value listTracker{}
ZeroTracker == [listID |-> "", nestingLevel |-> 0, itemCounts |-> Nil]

\* &converter{tab: tab, tabIndex: tabIndex}; the tab is passed along with it
NewConverter(tabIndex) ==
    [tabIndex |-> tabIndex, buf |-> <<>>, images |-> <<>>, imageCount |-> 0,
     listState |-> ZeroTracker]

writeHeading(c, text, level) ==
    [c EXCEPT !.buf = @ \o Repeat(<<"#">>, level) \o <<" ">> \o TrimSpace(text) \o <<"\n", "\n">>]

\* a rendering that puts the strikethrough markers inside the bold and italic markers
renderTextRunStrikeInside(tr) ==
    LET text == tr.Content
    IN  IF text = NL THEN text
        ELSE IF tr.TextStyle = Nil THEN text
        ELSE LET style == tr.TextStyle[1]
             IN  IF isMonospace(style) /\ TrimSpace(text) # <<>>
                 THEN <<Backtick>> \o TrimSpace(text) \o <<Backtick>>
                 ELSE LET trailingNewline == HasSuffixNL(text)
                          t0 == TrimRightNL(text)
                          t1 == IF style.Strikethrough THEN <<"~", "~">> \o t0 \o <<"~", "~">> ELSE t0
                          t2 == IF style.Bold /\ style.Italic THEN <<"*", "*", "*">> \o t1 \o <<"*", "*", "*">>
                                ELSE IF style.Bold THEN <<"*", "*">> \o t1 \o <<"*", "*">>
                                ELSE IF style.Italic THEN <<"*">> \o t1 \o <<"*">>
                                ELSE t1
                          t3 == IF style.Link # Nil /\ style.Link[1].Url # <<>>
                                THEN <<"[">> \o t2 \o <<"]", "(">> \o style.Link[1].Url \o <<")">>
                                ELSE t2
                      IN  IF t0 = <<>> THEN (IF trailingNewline THEN NL ELSE <<>>)
                          ELSE IF trailingNewline THEN t3 \o NL ELSE t3

\* a rendering that puts the bold markers around inline code
renderTextRunStyledCode(tr) ==
    LET text == tr.Content
    IN  IF text = NL THEN text
        ELSE IF tr.TextStyle = Nil THEN text
        ELSE LET style == tr.TextStyle[1]
                 trailingNewline == HasSuffixNL(text)
                 t0 == IF isMonospace(style) /\ TrimSpace(text) # <<>>
                       THEN <<Backtick>> \o TrimSpace(text) \o <<Backtick>>
                       ELSE TrimRightNL(text)
                 t1 == IF style.Bold /\ style.Italic THEN <<"*", "*", "*">> \o t0 \o <<"*", "*", "*">>
                       ELSE IF style.Bold THEN <<"*", "*">> \o t0 \o <<"*", "*">>
                       ELSE IF style.Italic THEN <<"*">> \o t0 \o <<"*">>
                       ELSE t0
                 t2 == IF style.Strikethrough THEN <<"~", "~">> \o t1 \o <<"~", "~">> ELSE t1
                 t3 == IF style.Link # Nil /\ style.Link[1].Url # <<>>
                       THEN <<"[">> \o t2 \o <<"]", "(">> \o style.Link[1].Url \o <<")">>
                       ELSE t2
             IN  IF t0 = <<>> THEN (IF trailingNewline THEN NL ELSE <<>>)
                 ELSE IF isMonospace(style) /\ TrimSpace(text) # <<>> THEN t3
                 ELSE IF trailingNewline THEN t3 \o NL ELSE t3

renderTextRun(tr) ==
    LET text == tr.Content
    IN  IF text = NL THEN text
        ELSE IF tr.TextStyle = Nil THEN text
        ELSE LET style == tr.TextStyle[1]
             IN  IF isMonospace(style) /\ TrimSpace(text) # <<>>
                 THEN <<Backtick>> \o TrimSpace(text) \o <<Backtick>>
                 ELSE LET trailingNewline == HasSuffixNL(text)
                          t0 == TrimRightNL(text)
                          t1 == IF style.Bold /\ style.Italic THEN <<"*", "*", "*">> \o t0 \o <<"*", "*", "*">>
                                ELSE IF style.Bold THEN <<"*", "*">> \o t0 \o <<"*", "*">>
                                ELSE IF style.Italic THEN <<"*">> \o t0 \o <<"*">>
                                ELSE t0
                          t2 == IF style.Strikethrough THEN <<"~", "~">> \o t1 \o <<"~", "~">> ELSE t1
                          t3 == IF style.Link # Nil /\ style.Link[1].Url # <<>>
                                THEN <<"[">> \o t2 \o <<"]", "(">> \o style.Link[1].Url \o <<")">>
                                ELSE t2
                      IN  IF t0 = <<>> THEN (IF trailingNewline THEN NL ELSE <<>>)
                          ELSE IF trailingNewline THEN t3 \o NL ELSE t3

\* a filename made of the per-tab counter alone
imageFilenameNoTab(tabIndex, imageCount, ext) ==
    <<"i", "m", "a", "g", "e", "_">> \o Pad3(imageCount) \o ext

\* a filename whose counter is not padded
imageFilenameNoPad(tabIndex, imageCount, ext) ==
    <<"t", "a", "b">> \o Itoa(tabIndex) \o <<"_", "i", "m", "a", "g", "e", "_">> \o Itoa(imageCount) \o ext

\* fmt.Sprintf("tab%d_image_%03d%s", tabIndex, imageCount, ext)
imageFilename(tabIndex, imageCount, ext) ==
    <<"t", "a", "b">> \o Itoa(tabIndex) \o <<"_", "i", "m", "a", "g", "e", "_">> \o Pad3(imageCount) \o ext

\* a rendering that counts the element before it looks the image up
renderInlineObjectCountsFirst(c, tab, elem) ==
    LET none == [c |-> [c EXCEPT !.imageCount = @ + 1], s |-> <<>>]
    IN  IF tab.DocumentTab = Nil \/ tab.DocumentTab[1].InlineObjects = Nil THEN none
        ELSE LET objs == tab.DocumentTab[1].InlineObjects[1]
             IN  IF ~HasKey(objs, elem.InlineObjectId) THEN none
                 ELSE LET obj == objs[elem.InlineObjectId]
                      IN  IF obj.InlineObjectProperties = Nil
                             \/ obj.InlineObjectProperties[1].EmbeddedObject = Nil THEN none
                          ELSE LET embedded == obj.InlineObjectProperties[1].EmbeddedObject[1]
                               IN  IF embedded.ImageProperties = Nil
                                      \/ embedded.ImageProperties[1].ContentUri = <<>> THEN none
                                   ELSE LET uri == embedded.ImageProperties[1].ContentUri
                                            n == c.imageCount + 1
                                            filename == imageFilename(c.tabIndex, n, guessImageExtension(uri))
                                            alt == IF embedded.Title # <<>> THEN embedded.Title
                                                   ELSE IF embedded.Description # <<>> THEN embedded.Description
                                                   ELSE filename
                                        IN  [c |-> [c EXCEPT !.imageCount = n,
                                                             !.images = Append(@, [ObjectID |-> elem.InlineObjectId,
                                                                                   ContentURI |-> uri,
                                                                                   Filename |-> filename])],
                                             s |-> <<"!", "[">> \o alt \o <<"]", "(", "i", "m", "a", "g", "e", "s", "/">>
                                                   \o filename \o <<")">>]

\* returns the converter after the call and the string returned
renderInlineObject(c, tab, elem) ==
    LET none == [c |-> c, s |-> <<>>]
    IN  IF tab.DocumentTab = Nil \/ tab.DocumentTab[1].InlineObjects = Nil THEN none
        ELSE LET objs == tab.DocumentTab[1].InlineObjects[1]
             IN  IF ~HasKey(objs, elem.InlineObjectId) THEN none
                 ELSE LET obj == objs[elem.InlineObjectId]
                      IN  IF obj.InlineObjectProperties = Nil
                             \/ obj.InlineObjectProperties[1].EmbeddedObject = Nil THEN none
                          ELSE LET embedded == obj.InlineObjectProperties[1].EmbeddedObject[1]
                               IN  IF embedded.ImageProperties = Nil
                                      \/ embedded.ImageProperties[1].ContentUri = <<>> THEN none
                                   ELSE LET uri == embedded.ImageProperties[1].ContentUri
                                            n == c.imageCount + 1
                                            filename == imageFilename(c.tabIndex, n, guessImageExtension(uri))
                                            alt == IF embedded.Title # <<>> THEN embedded.Title
                                                   ELSE IF embedded.Description # <<>> THEN embedded.Description
                                                   ELSE filename
                                        IN  [c |-> [c EXCEPT !.imageCount = n,
                                                             !.images = Append(@, [ObjectID |-> elem.InlineObjectId,
                                                                                   ContentURI |-> uri,
                                                                                   Filename |-> filename])],
                                             s |-> <<"!", "[">> \o alt \o <<"]", "(", "i", "m", "a", "g", "e", "s", "/">>
                                                   \o filename \o <<")">>]

\* one iteration of renderParagraphElements' loop: r is the converter and the builder so far
renderParagraphElement(r, tab, elem) ==
    IF elem.TextRun # Nil THEN [r EXCEPT !.s = @ \o renderTextRun(elem.TextRun[1])]
    ELSE IF elem.InlineObjectElement # Nil
         THEN LET q == renderInlineObject(r.c, tab, elem.InlineObjectElement[1])
              IN  [c |-> q.c, s |-> r.s \o q.s]
    ELSE IF elem.HorizontalRule # Nil THEN [r EXCEPT !.s = @ \o <<"\n", "-", "-", "-", "\n">>]
    ELSE r

RECURSIVE renderElementsFrom(_, _, _)
renderElementsFrom(r, tab, elements) ==
    IF elements = <<>> THEN r
    ELSE renderElementsFrom(renderParagraphElement(r, tab, Head(elements)), tab, Tail(elements))

\* returns the converter after the call and the string returned
renderParagraphElements(c, tab, elements) ==
    renderElementsFrom([c |-> c, s |-> <<>>], tab, elements)

\* m[k]++ on a Go map
MapInc(m, k) ==
    [x \in (DOMAIN m) \cup {k} |-> IF x = k THEN (IF k \in DOMAIN m THEN m[k] ELSE 0) + 1 ELSE m[x]]

\* delete(m, k) for every key k > level
MapDeleteAbove(m, level) == [x \in {k \in DOMAIN m : k <= level} |-> m[x]]

\* the "ordered" computed at the head of handleListItem
listItemOrdered(tab, listID, nestingLevel) ==
    IF listID # "" /\ tab.DocumentTab # Nil /\ tab.DocumentTab[1].Lists # Nil
    THEN LET lists == tab.DocumentTab[1].Lists[1]
         IN  IF HasKey(lists, listID)
             THEN LET list == lists[listID]
                  IN  IF list.ListProperties # Nil
                         /\ nestingLevel < Len(list.ListProperties[1].NestingLevels)
                      THEN isOrderedGlyph(list.ListProperties[1].NestingLevels[nestingLevel + 1].GlyphType)
                      ELSE FALSE
             ELSE FALSE
    ELSE FALSE

\* a tracker that keeps the counters of deeper levels when nesting decreases
trackListItemKeepDeeper(ls, listID, nestingLevel) ==
    LET ls1 == IF ls.listID # listID
               THEN [listID |-> listID, nestingLevel |-> 0, itemCounts |-> Some(<<>>)]
               ELSE ls
        ls2 == IF ls1.itemCounts = Nil THEN [ls1 EXCEPT !.itemCounts = Some(<<>>)] ELSE ls1
    IN  [ls2 EXCEPT !.nestingLevel = nestingLevel,
                    !.itemCounts = Some(MapInc(@[1], nestingLevel))]

\* a tracker that keeps its counters when the list identifier changes
trackListItemKeepOnSwitch(ls, listID, nestingLevel) ==
    LET ls1 == [ls EXCEPT !.listID = listID]
        ls2 == IF ls1.itemCounts = Nil THEN [ls1 EXCEPT !.itemCounts = Some(<<>>)] ELSE ls1
        ls3 == IF nestingLevel < ls2.nestingLevel
               THEN [ls2 EXCEPT !.itemCounts = Some(MapDeleteAbove(@[1], nestingLevel))]
               ELSE ls2
    IN  [ls3 EXCEPT !.nestingLevel = nestingLevel,
                    !.itemCounts = Some(MapInc(@[1], nestingLevel))]

\* a tracker whose new value, on a switch of list, is made without the identifier
trackListItemNoIdentifier(ls, listID, nestingLevel) ==
    LET ls1 == IF ls.listID # listID
               THEN [listID |-> "", nestingLevel |-> 0, itemCounts |-> Some(<<>>)]
               ELSE ls
        ls2 == IF ls1.itemCounts = Nil THEN [ls1 EXCEPT !.itemCounts = Some(<<>>)] ELSE ls1
        ls3 == IF nestingLevel < ls2.nestingLevel
               THEN [ls2 EXCEPT !.itemCounts = Some(MapDeleteAbove(@[1], nestingLevel))]
               ELSE ls2
    IN  [ls3 EXCEPT !.nestingLevel = nestingLevel,
                    !.itemCounts = Some(MapInc(@[1], nestingLevel))]

\* the list tracker after handleListItem has counted an item (lines 137-159)
trackListItem(ls, listID, nestingLevel) ==
    LET ls1 == IF ls.listID # listID
               THEN [listID |-> listID, nestingLevel |-> 0, itemCounts |-> Some(<<>>)]
               ELSE ls
        ls2 == IF ls1.itemCounts = Nil THEN [ls1 EXCEPT !.itemCounts = Some(<<>>)] ELSE ls1
        ls3 == IF nestingLevel < ls2.nestingLevel
               THEN [ls2 EXCEPT !.itemCounts = Some(MapDeleteAbove(@[1], nestingLevel))]
               ELSE ls2
    IN  [ls3 EXCEPT !.nestingLevel = nestingLevel,
                    !.itemCounts = Some(MapInc(@[1], nestingLevel))]

\* the line handleListItem writes (lines 161-168); r is the converter and the text
\* after renderParagraphElements
writeListItem(r, ordered, nestingLevel) ==
    [r.c EXCEPT !.buf = @ \o Repeat(<<" ", " ">>, nestingLevel)
                          \o (IF ordered
                              THEN Itoa(r.c.listState.itemCounts[1][nestingLevel]) \o <<".", " ">>
                              ELSE <<"-", " ">>)
                          \o TrimSpace(r.s) \o NL]

handleListItem(c, tab, p, headingLevel) ==
    writeListItem(
        renderParagraphElements(
            [c EXCEPT !.listState = trackListItem(@, p.Bullet[1].ListId, p.Bullet[1].NestingLevel)],
            tab, p.Elements),
        listItemOrdered(tab, p.Bullet[1].ListId, p.Bullet[1].NestingLevel),
        p.Bullet[1].NestingLevel)

\* a normal paragraph written with the newline that ends it
writeParagraphKeepsNewline(r, headingLevel) ==
    IF TrimSpace(r.s) = <<>> THEN [r.c EXCEPT !.buf = @ \o NL]
    ELSE IF headingLevel > 0 THEN writeHeading(r.c, r.s, headingLevel)
    ELSE [r.c EXCEPT !.buf = @ \o r.s \o <<"\n", "\n">>]

\* what convertParagraph writes for a paragraph without a bullet (lines 105-118); r is
\* the converter and the text after renderParagraphElements
writeParagraph(r, headingLevel) ==
    IF TrimSpace(r.s) = <<>> THEN [r.c EXCEPT !.buf = @ \o NL]
    ELSE IF headingLevel > 0 THEN writeHeading(r.c, r.s, headingLevel)
    ELSE [r.c EXCEPT !.buf = @ \o TrimRightNL(r.s) \o <<"\n", "\n">>]

\* namedStyle of convertParagraph
namedStyleOf(p) == IF p.ParagraphStyle # Nil THEN p.ParagraphStyle[1].NamedStyleType ELSE ""

\* a paragraph without a bullet that leaves the tracker alone
resetListStateSkipped(c) == c

\* c.listState = listTracker{}
resetListState(c) == [c EXCEPT !.listState = ZeroTracker]

convertParagraph(c, tab, p) ==
    IF p.Bullet # Nil THEN handleListItem(c, tab, p, headingLevelFromStyle(namedStyleOf(p)))
    ELSE writeParagraph(renderParagraphElements(resetListState(c), tab, p.Elements),
                        headingLevelFromStyle(namedStyleOf(p)))

\* cellText.WriteString(strings.TrimSpace(text)): r is the converter and cellText so far,
\* q the converter and the text after renderParagraphElements
writeCellText(r, q) == [c |-> q.c, s |-> r.s \o TrimSpace(q.s)]

\* the loop over cell.Content
RECURSIVE cellTextFrom(_, _, _)
cellTextFrom(r, tab, content) ==
    IF content = <<>> THEN r
    ELSE IF Head(content).Paragraph # Nil
         THEN cellTextFrom(writeCellText(r, renderParagraphElements(r.c, tab, Head(content).Paragraph[1].Elements)),
                           tab, Tail(content))
         ELSE cellTextFrom(r, tab, Tail(content))

\* an escaping that leaves the pipes alone
escapeCellNewlinesOnly(text) == ReplaceAll(text, "\n", <<" ">>)

\* the two strings.ReplaceAll of a cell
escapeCell(text) == ReplaceAll(ReplaceAll(text, "|", <<"\\", "|">>), "\n", <<" ">>)

\* cells[j] = ...: r is the converter and the cells so far, q the converter and cellText
storeCell(r, q) == [c |-> q.c, cells |-> Append(r.cells, escapeCell(q.s))]

\* the loop over row.TableCells
RECURSIVE cellsFrom(_, _, _)
cellsFrom(r, tab, tableCells) ==
    IF tableCells = <<>> THEN r
    ELSE cellsFrom(storeCell(r, cellTextFrom([c |-> r.c, s |-> <<>>], tab, Head(tableCells).Content)),
                   tab, Tail(tableCells))

\* rows[i] = cells: r is the converter and the rows so far, q the converter and the cells
storeRow(r, q) == [c |-> q.c, rows |-> Append(r.rows, q.cells)]

\* the loop over table.TableRows
RECURSIVE rowsFrom(_, _, _)
rowsFrom(r, tab, tableRows) ==
    IF tableRows = <<>> THEN r
    ELSE rowsFrom(storeRow(r, cellsFrom([c |-> r.c, cells |-> <<>>], tab, Head(tableRows).TableCells)),
                  tab, Tail(tableRows))

\* "| " + strings.Join(row, " | ") + " |\n"
tableLine(row) == <<"|", " ">> \o Join(row, <<" ", "|", " ">>) \o <<" ", "|", "\n">>

\* a row left as short as it is
padRowNone(row, n) == row

\* for len(row) < n { row = append(row, "") }
padRow(row, n) == IF Len(row) < n THEN row \o [i \in 1..(n - Len(row)) |-> <<>>] ELSE row

\* the loop over rows[1:]
RECURSIVE dataLines(_, _)
dataLines(rows, n) ==
    IF rows = <<>> THEN <<>>
    ELSE tableLine(padRow(Head(rows), n)) \o dataLines(Tail(rows), n)

\* what convertTable writes for the rows (lines 297-310)
tableText(rows) ==
    tableLine(rows[1]) \o tableLine([i \in 1..Len(rows[1]) |-> <<"-", "-", "-">>])
    \o dataLines(Tail(rows), Len(rows[1])) \o NL

\* r is the converter and the rows after the loop over table.TableRows
writeTable(r) == [r.c EXCEPT !.buf = @ \o tableText(r.rows)]

convertTable(c, tab, table) ==
    IF Len(table.TableRows) = 0 THEN c
    ELSE writeTable(rowsFrom([c |-> c, rows |-> <<>>], tab, table.TableRows))

convertStructuralElement(c, tab, elem) ==
    IF elem.Paragraph # Nil THEN convertParagraph(c, tab, elem.Paragraph[1])
    ELSE IF elem.Table # Nil THEN convertTable(c, tab, elem.Table[1])
    ELSE c

RECURSIVE convertElementsFrom(_, _, _)
convertElementsFrom(c, tab, content) ==
    IF content = <<>> THEN c
    ELSE convertElementsFrom(convertStructuralElement(c, tab, Head(content)), tab, Tail(content))

convertBody(c, tab, body) ==
    IF body = Nil THEN c ELSE convertElementsFrom(c, tab, body[1].Content)

ConvertTab(tab, title, tabIndex) ==
    LET c0 == writeHeading(NewConverter(tabIndex), title, 1)
        c == IF tab.DocumentTab # Nil THEN convertBody(c0, tab, tab.DocumentTab[1].Body) ELSE c0
    IN  [Markdown |-> c.buf, Images |-> c.images]

-----------------------------------------------------------------------------
(* The documents of the model: values of the docsv1 types the code reads *)

TextRun(content, style) ==
    [TextRun |-> Some([Content |-> content, TextStyle |-> style]),
     InlineObjectElement |-> Nil, HorizontalRule |-> Nil]

InlineObjectElement(id) ==
    [TextRun |-> Nil, InlineObjectElement |-> Some([InlineObjectId |-> id]),
     HorizontalRule |-> Nil]

Paragraph(namedStyle, bullet, elements) ==
    [Paragraph |-> Some([ParagraphStyle |-> Some([NamedStyleType |-> namedStyle]),
                         Bullet |-> bullet, Elements |-> elements]),
     Table |-> Nil, SectionBreak |-> Nil, TableOfContents |-> Nil]

Bullet(listID, nestingLevel) == Some([ListId |-> listID, NestingLevel |-> nestingLevel])

Table(rows) ==
    [Paragraph |-> Nil,
     Table |-> Some([TableRows |-> [i \in 1..Len(rows) |->
                        [TableCells |-> [j \in 1..Len(rows[i]) |-> [Content |-> rows[i][j]]]]]]),
     SectionBreak |-> Nil, TableOfContents |-> Nil]

SectionBreak ==
    [Paragraph |-> Nil, Table |-> Nil, SectionBreak |-> Some("break"), TableOfContents |-> Nil]

\* a list whose glyph type is glyphs[l + 1] at nesting level l
List(glyphs) ==
    [ListProperties |-> Some([NestingLevels |-> [i \in 1..Len(glyphs) |-> [GlyphType |-> glyphs[i]]]])]

InlineImage(uri, title, description) ==
    [InlineObjectProperties |-> Some([EmbeddedObject |-> Some(
        [ImageProperties |-> Some([ContentUri |-> uri]), Title |-> title, Description |-> description])])]

DocumentTab(content, lists, inlineObjects) ==
    Some([Body |-> Some([Content |-> content]), Lists |-> lists, InlineObjects |-> inlineObjects])

\* ptr stands for the address of the Tab: two tabs of a tree are never the same tab
Tab(ptr, properties, documentTab, childTabs) ==
    [ptr |-> ptr, TabProperties |-> properties, DocumentTab |-> documentTab, ChildTabs |-> childTabs]

TabProperties(title) == Some([Title |-> title])

UriPng == <<"u", ".", "p", "n", "g">>
UriRaw == <<"u", "2">>

\* the list definitions of the model's tabs: L1 is numbered at every level, L2 is
\* numbered above the deepest level and bulleted there
ModelLists ==
    [id \in {"L1", "L2"} |->
        IF id = "L1" THEN List([l \in 1..(MaxLevel + 1) |-> "DECIMAL"])
        ELSE List([l \in 1..(MaxLevel + 1) |-> IF l <= MaxLevel THEN "UPPER_ALPHA" ELSE "GLYPH_TYPE_UNSPECIFIED"])]

ModelInlineObjects ==
    [id \in {"o1", "o2"} |->
        IF id = "o1" THEN InlineImage(UriPng, <<>>, <<>>) ELSE InlineImage(UriRaw, <<"t">>, <<>>)]

TextX == <<TextRun(<<"x">>, Nil)>>

-----------------------------------------------------------------------------
(* One ConvertTab call, one structural element at a time.  The buffer is only  *)
(* appended to, so cv.buf keeps what the last element appended; hist and outs  *)
(* start again at every paragraph without a bullet.                            *)

\* the tab being converted: its list definitions and inline objects
ConvTabValue == Tab(<<1>>, TabProperties(<<"T">>), DocumentTab(<<>>, Some(ModelLists), Some(ModelInlineObjects)), <<>>)

ListItems ==
    {Paragraph("NORMAL_TEXT", Bullet(id, l), TextX) : id \in {"L1", "L2"}, l \in 0..MaxLevel}

PlainParagraphs ==
    { Paragraph("NORMAL_TEXT", Nil, TextX),
      Paragraph("NORMAL_TEXT", Nil, <<TextRun(NL, Nil)>>),
      Paragraph("HEADING_2", Nil, TextX) }

OtherElements == { Table(<< << <<Paragraph("NORMAL_TEXT", Nil, TextX)>> >> >>) }

IsListItem(e) == e.Paragraph # Nil /\ e.Paragraph[1].Bullet # Nil
IsPlainParagraph(e) == e.Paragraph # Nil /\ e.Paragraph[1].Bullet = Nil
ItemList(e) == e.Paragraph[1].Bullet[1].ListId
ItemLevel(e) == e.Paragraph[1].Bullet[1].NestingLevel

ConvIdle ==
    /\ cv = NewConverter(0)
    /\ ctab = ConvTabValue
    /\ last = Nil
    /\ hist = <<>>
    /\ outs = <<>>
    /\ prior = Nil

\* ConvertTab up to the call of convertBody
ConvInit ==
    /\ cv = writeHeading(NewConverter(0), <<"T">>, 1)
    /\ ctab = ConvTabValue
    /\ last = Nil
    /\ hist = <<>>
    /\ outs = <<>>
    /\ prior = Nil

\* the loop of convertBody meets a list item, a table or a section break
ConvertInList(e) ==
    /\ Len(hist) < MaxBody
    /\ cv' = convertStructuralElement([cv EXCEPT !.buf = <<>>], ConvTabValue, e)
    /\ last' = Some(e)
    /\ hist' = Append(hist, e)
    /\ outs' = Append(outs, cv'.buf)
    /\ prior' = prior
    /\ ctab' = ctab
    /\ UNCHANGED <<exportVars, flatVars, pureVars>>

\* the loop of convertBody meets a paragraph without a bullet
ConvertPlain(e) ==
    /\ cv' = convertStructuralElement([cv EXCEPT !.buf = <<>>], ConvTabValue, e)
    /\ last' = Some(e)
    /\ hist' = <<>>
    /\ outs' = <<>>
    /\ prior' = LET items == {k \in 1..Len(hist) : IsListItem(hist[k])}
                IN  IF items = {} THEN prior ELSE Some(ItemList(hist[Max(items)]))
    /\ ctab' = ctab
    /\ UNCHANGED <<exportVars, flatVars, pureVars>>

-----------------------------------------------------------------------------
(* One ConvertTab call on tabs whose list definitions and inline objects are   *)
(* incomplete, one structural element at a time; hist keeps every element.     *)

\* inline objects: o1 and o2 hold an image; the others lack the properties, the
\* embedded object, the image properties or the content URI
ParaInlineObjects ==
    [id \in {"o1", "o2", "noprops", "noembed", "noimage", "nouri"} |->
        CASE id = "o1" -> InlineImage(UriPng, <<>>, <<>>)
          [] id = "o2" -> InlineImage(UriRaw, <<"t">>, <<>>)
          [] id = "noprops" -> [InlineObjectProperties |-> Nil]
          [] id = "noembed" -> [InlineObjectProperties |-> Some([EmbeddedObject |-> Nil])]
          [] id = "noimage" ->
                [InlineObjectProperties |-> Some([EmbeddedObject |-> Some(
                    [ImageProperties |-> Nil, Title |-> <<"t">>, Description |-> <<>>])])]
          [] id = "nouri" -> InlineImage(<<>>, <<"t">>, <<>>)]

\* the identifiers an inline object element may carry: "gone" is in no map
InlineObjectIds == (DOMAIN ParaInlineObjects) \cup {"gone"}

\* a paragraph of the text x, the inline object a, the text x and the inline object b
ImageParagraph(bullet, a, b) ==
    Paragraph("NORMAL_TEXT", bullet,
              TextX \o <<InlineObjectElement(a)>> \o TextX \o <<InlineObjectElement(b)>>)

ImageParagraphs ==
    {ImageParagraph(Nil, a, b) : a \in InlineObjectIds, b \in {"o1", "gone"}}
    \cup {ImageParagraph(Bullet("L1", 0), a, "o2") : a \in {"o1", "gone", "nouri"}}

\* a cell whose only paragraph holds the inline object a
ImageCell(a) == <<Paragraph("NORMAL_TEXT", Nil, <<InlineObjectElement(a)>>)>>

\* tables of a row of two cells and a row of one cell, an inline object in each
ImageTables ==
    {Table(<< <<ImageCell(a), ImageCell("o2")>>, <<ImageCell("o1")>> >>) : a \in {"o1", "noimage"}}


\* the tabs: with list definitions and inline objects, without inline objects, without
\* list definitions
ParaTabs ==
    { Tab(<<1>>, TabProperties(<<"T">>), DocumentTab(<<>>, Some(ModelLists), Some(ParaInlineObjects)), <<>>),
      Tab(<<1>>, TabProperties(<<"T">>), DocumentTab(<<>>, Some(ModelLists), Nil), <<>>),
      Tab(<<1>>, TabProperties(<<"T">>), DocumentTab(<<>>, Nil, Some(ParaInlineObjects)), <<>>) }

\* the positions the tab may have among the flattened tabs
TabIndexes == {0, 11}

MaxParas == 2

\* ConvertTab up to the call of convertBody
ParaInit ==
    /\ ctab \in ParaTabs
    /\ \E i \in TabIndexes : cv = writeHeading(NewConverter(i), <<"T">>, 1)
    /\ last = Nil
    /\ hist = <<>>
    /\ outs = <<>>
    /\ prior = Nil

\* one iteration of the loop of convertBody
ConvertElement(e) ==
    /\ Len(hist) < MaxParas
    /\ cv' = convertStructuralElement([cv EXCEPT !.buf = <<>>], ctab, e)
    /\ last' = Some(e)
    /\ hist' = Append(hist, e)
    /\ outs' = Append(outs, cv'.buf)
    /\ UNCHANGED <<ctab, prior>>
    /\ UNCHANGED <<exportVars, flatVars, pureVars>>

-----------------------------------------------------------------------------
(* convertParagraph alone, on the paragraph styles, bullets and list            *)
(* definitions it may meet                                                      *)

HorizontalRule ==
    [TextRun |-> Nil, InlineObjectElement |-> Nil, HorizontalRule |-> Some("rule")]

\* the glyph types of the list definitions: the numbered ones, then others
GlyphTypes ==
    {"DECIMAL", "ALPHA", "UPPER_ALPHA", "ROMAN", "UPPER_ROMAN", "ZERO_DECIMAL",
     "GLYPH_TYPE_UNSPECIFIED", "NONE", "decimal", ""}

\* the list named after a glyph type has it at every level; "mixed" is numbered at
\* level 0 only; "noprops" has no properties; the list "" is numbered at every level
StyleLists ==
    [id \in (GlyphTypes \cup {"mixed", "noprops"}) |->
        CASE id = "mixed" -> List([l \in 1..(MaxLevel + 1) |-> IF l = 1 THEN "ROMAN" ELSE "NONE"])
          [] id = "noprops" -> [ListProperties |-> Nil]
          [] id = "" -> List([l \in 1..(MaxLevel + 1) |-> "DECIMAL"])
          [] OTHER -> List([l \in 1..(MaxLevel + 1) |-> id])]

\* the list identifiers a bullet may carry: "gone" is in no map
StyleListIds == (DOMAIN StyleLists) \cup {"gone"}

\* the tabs: with list definitions, without
StyleTabs ==
    { Tab(<<1>>, TabProperties(<<"T">>), DocumentTab(<<>>, Some(StyleLists), Some(ModelInlineObjects)), <<>>),
      Tab(<<1>>, TabProperties(<<"T">>), DocumentTab(<<>>, Nil, Some(ModelInlineObjects)), <<>>) }

NamedStyles ==
    {"HEADING_1", "HEADING_2", "HEADING_3", "HEADING_4", "HEADING_5", "HEADING_6",
     "TITLE", "SUBTITLE", "NORMAL_TEXT", "HEADING_7", ""}

\* the elements of a paragraph: x; x between spaces; a newline; a space and a newline;
\* a line, a rule and spaces
StyleTexts ==
    { TextX,
      <<TextRun(<<" ", "x", " ", "\n">>, Nil)>>,
      <<TextRun(NL, Nil)>>,
      <<TextRun(<<" ", "\n">>, Nil)>>,
      <<TextRun(<<"a", "\n">>, Nil), HorizontalRule, TextRun(<<" ", " ">>, Nil)>> }

\* a paragraph that has no ParagraphStyle
Unstyled(e) == [e EXCEPT !.Paragraph = Some([e.Paragraph[1] EXCEPT !.ParagraphStyle = Nil])]

StyleParagraphs ==
    {Paragraph(st, b, t) : st \in NamedStyles, b \in {Nil, Bullet("DECIMAL", 0)}, t \in StyleTexts}
    \cup {Unstyled(Paragraph("", Nil, t)) : t \in StyleTexts}

StyleListItems ==
    {Paragraph("NORMAL_TEXT", Bullet(id, l), TextX) : id \in StyleListIds, l \in 0..(MaxLevel + 1)}

\* ConvertTab before a paragraph: at the head of the body, or after an item of the
\* list "DECIMAL" at level 1
StyleInit ==
    /\ ctab \in StyleTabs
    /\ \E seen \in BOOLEAN :
          cv = IF seen
               THEN convertParagraph(writeHeading(NewConverter(0), <<"T">>, 1), ctab,
                                     Paragraph("NORMAL_TEXT", Bullet("DECIMAL", 1), TextX).Paragraph[1])
               ELSE writeHeading(NewConverter(0), <<"T">>, 1)
    /\ last = Nil
    /\ hist = <<>>
    /\ outs = <<>>
    /\ prior = Nil

\* c.convertParagraph(e.Paragraph)
ConvertParagraphCall(e) ==
    /\ last = Nil
    /\ cv' = convertParagraph([cv EXCEPT !.buf = <<>>], ctab, e.Paragraph[1])
    /\ last' = Some(e)
    /\ hist' = <<e>>
    /\ outs' = <<cv'.buf>>
    /\ UNCHANGED <<ctab, prior>>
    /\ UNCHANGED <<exportVars, flatVars, pureVars>>

-----------------------------------------------------------------------------
(* export.go: helpers *)

\* a flattening that returns the tabs last to first
RECURSIVE flattenTabsReversed(_)
flattenTabsReversed(ts) ==
    IF ts = <<>> THEN <<>>
    ELSE flattenTabsReversed(Tail(ts)) \o flattenTabsReversed(Head(ts).ChildTabs) \o <<Head(ts)>>

\* a flattening that puts the later siblings before the children
RECURSIVE flattenTabsSiblingsFirst(_)
flattenTabsSiblingsFirst(ts) ==
    IF ts = <<>> THEN <<>>
    ELSE <<Head(ts)>> \o flattenTabsSiblingsFirst(Tail(ts)) \o flattenTabsSiblingsFirst(Head(ts).ChildTabs)

RECURSIVE flattenTabs(_)
flattenTabs(ts) ==
    IF ts = <<>> THEN <<>>
    ELSE <<Head(ts)>> \o flattenTabs(Head(ts).ChildTabs) \o flattenTabs(Tail(ts))

tabTitle(tab) ==
    IF tab.TabProperties # Nil /\ tab.TabProperties[1].Title # <<>>
    THEN tab.TabProperties[1].Title
    ELSE <<"U", "n", "t", "i", "t", "l", "e", "d">>

\* the strings.NewReplacer of sanitizeFilename on one character
replaceChar(ch) ==
    IF ch \in {"/", "\\", ":"} THEN <<"-">>
    ELSE IF ch \in {"*", "?", "\"", "<", ">", "|"} THEN <<>>
    ELSE <<ch>>

RECURSIVE replaceChars(_)
replaceChars(name) ==
    IF name = <<>> THEN <<>> ELSE replaceChar(Head(name)) \o replaceChars(Tail(name))

sanitizeFilename(name) ==
    LET n == TrimSpace(replaceChars(name))
    IN  IF n = <<>> THEN <<"u", "n", "t", "i", "t", "l", "e", "d">> ELSE n

\* an index that lists the last tab first
RECURSIVE indexLinesReversed(_)
indexLinesReversed(rs) ==
    IF rs = <<>> THEN <<>>
    ELSE indexLinesReversed(Tail(rs))
         \o <<"-", " ", "[">> \o Head(rs).title \o <<"]", "(">> \o Head(rs).filename \o <<")", "\n">>

RECURSIVE indexLines(_)
indexLines(rs) ==
    IF rs = <<>> THEN <<>>
    ELSE <<"-", " ", "[">> \o Head(rs).title \o <<"]", "(">> \o Head(rs).filename \o <<")", "\n">>
         \o indexLines(Tail(rs))

generateIndex(rs) ==
    <<"#", " ", "T", "a", "b", "l", "e", " ", "o", "f", " ", "C", "o", "n", "t", "e", "n", "t", "s", "\n", "\n">>
    \o indexLines(rs) \o NL

\* the zero value of tabResult
ZeroResult == [title |-> <<>>, filename |-> <<>>, result |-> [Markdown |-> <<>>, Images |-> <<>>]]

\* the body of a tab task up to the store into results (lines 432-434); i counts from 1
tabTask(tab, i) ==
    LET title == tabTitle(tab)
    IN  [title |-> title,
         filename |-> sanitizeFilename(title) \o <<".", "m", "d">>,
         result |-> ConvertTab(tab, title, i - 1)]

\* the loop that collects allImages (lines 453-461)
RECURSIVE collectImages(_)
collectImages(rs) ==
    IF rs = <<>> THEN <<>>
    ELSE [k \in 1..Len(Head(rs).result.Images) |->
             [ref |-> Head(rs).result.Images[k], imagesDir |-> <<"i", "m", "a", "g", "e", "s">>]]
         \o collectImages(Tail(rs))

\* filepath.Join(img.imagesDir, img.ref.Filename), relative to the output directory
imagePath(img) == img.imagesDir \o <<"/">> \o img.ref.Filename

IndexPath == <<"t", "a", "b", "s", ".", "m", "d">>

\* capacity of the sem channel
SemCap == 10

\* a download task that hands its error to the group
downloadTaskReturnErr(err) == err

\* what the function given to g.Go returns after a download that ended with err
downloadTaskReturn(err) == Nil

\* a file written: os.WriteFile, or os.Create and io.Copy
WriteFile(files, path, content) ==
    [p \in (DOMAIN files) \cup {path} |-> IF p = path THEN content ELSE files[p]]

AllAt(f, v) == \A i \in DOMAIN f : f[i] = v

-----------------------------------------------------------------------------
(* The document trees of the model *)

\* what a tab of the pipeline's documents holds: a title and a body
TabKinds == {
    \* "a": a paragraph with a text run and the image o1
    [props |-> TabProperties(<<"a">>),
     docTab |-> DocumentTab(<<Paragraph("NORMAL_TEXT", Nil, TextX \o <<InlineObjectElement("o1")>>)>>,
                            Some(ModelLists), Some(ModelInlineObjects))],
    \* "a*": a numbered list item with the image o2, an unresolved image and the image o1
    [props |-> TabProperties(<<"a", "*">>),
     docTab |-> DocumentTab(<<Paragraph("NORMAL_TEXT", Bullet("L1", 0),
                                        <<InlineObjectElement("o2"), InlineObjectElement("gone"),
                                          InlineObjectElement("o1")>>)>>,
                            Some(ModelLists), Some(ModelInlineObjects))],
    \* no properties and no document tab
    [props |-> Nil, docTab |-> Nil] }

\* a tab that holds nothing but its place in the tree
BareKinds == { [props |-> TabProperties(<<"t">>), docTab |-> Nil] }

\* the forests of n tabs whose roots are prefix.k, prefix.(k+1), ...
RECURSIVE Forests(_, _, _, _)
Forests(prefix, k, n, kinds) ==
    IF n = 0 THEN {<<>>}
    ELSE UNION { { <<Tab(prefix \o <<k>>, kind.props, kind.docTab, kids)>> \o rest :
                       kind \in kinds,
                       kids \in Forests(prefix \o <<k>>, 1, m - 1, kinds),
                       rest \in Forests(prefix, k + 1, n - m, kinds) } : m \in 1..n }

Docs == UNION { Forests(<<>>, 1, n, TabKinds) : n \in 0..MaxTabs }

\* one tab whose only paragraph holds one image more than the semaphore has slots:
\* the first is o2, the rest o1
ManyImagesDoc ==
    << Tab(<<1>>, TabProperties(<<"a">>),
           DocumentTab(<<Paragraph("NORMAL_TEXT", Nil,
                                   [k \in 1..(SemCap + 1) |->
                                       InlineObjectElement(IF k = 1 THEN "o2" ELSE "o1")])>>,
                       Some(ModelLists), Some(ModelInlineObjects)),
           <<>>) >>

-----------------------------------------------------------------------------
(* ExportDoc, from the call of flattenTabs on *)

ExportStart ==
    /\ ctxDone = FALSE
    /\ pc = "flatten"
    /\ tabs = <<>>
    /\ dirs = {}
    /\ spawned = 0
    /\ tpc = <<>>
    /\ tlocal = <<>>
    /\ results = <<>>
    /\ allImages = <<>>
    /\ dpc = <<>>
    /\ sem = 0
    /\ gctxDone = FALSE
    /\ gerr = Nil
    /\ warnings = <<>>
    /\ fs = <<>>
    /\ wi = 0
    /\ writes = <<>>
    /\ retErr = Nil

ExportInit ==
    /\ doc \in Docs
    /\ badURIs \in SUBSET {UriPng, UriRaw}
    /\ ExportStart

ExportManyInit ==
    /\ doc = ManyImagesDoc
    /\ badURIs = {UriRaw}
    /\ ExportStart

ExportIdle ==
    /\ doc = <<>>
    /\ badURIs = {}
    /\ ExportStart
    
\* a flattening that goes on whatever the number of tabs
FlattenNoCheck ==
    /\ pc = "flatten"
    /\ tabs' = flattenTabs(doc)
    /\ pc' = "mkdir"
    /\ retErr' = retErr
    /\ UNCHANGED <<doc, badURIs, ctxDone, dirs, spawned, tpc, tlocal, results, allImages, dpc, sem,
                   gctxDone, gerr, warnings, fs, wi, writes,
                   convVars, flatVars, pureVars>>

\* tabs := flattenTabs(doc.Tabs); if len(tabs) == 0 { return error }
Flatten ==
    /\ pc = "flatten"
    /\ tabs' = flattenTabs(doc)
    /\ IF Len(tabs') = 0
       THEN /\ pc' = "done"
            /\ retErr' = Some("document has no tabs")
       ELSE /\ pc' = "mkdir"
            /\ retErr' = retErr
    /\ UNCHANGED <<doc, badURIs, ctxDone, dirs, spawned, tpc, tlocal, results, allImages, dpc, sem,
                   gctxDone, gerr, warnings, fs, wi, writes,
                   convVars, flatVars, pureVars>>

\* os.MkdirAll(imagesDir); results := make([]tabResult, len(tabs)); errgroup.WithContext
MkdirAll ==
    /\ pc = "mkdir"
    /\ \E made \in {{}, {<<".">>}, {<<".">>, <<"i", "m", "a", "g", "e", "s">>}} :
          /\ dirs' = made
          /\ IF <<"i", "m", "a", "g", "e", "s">> \in made
             THEN /\ pc' = "spawn"
                  /\ results' = [i \in 1..Len(tabs) |-> ZeroResult]
                  /\ tpc' = [i \in 1..Len(tabs) |-> "idle"]
                  /\ tlocal' = [i \in 1..Len(tabs) |-> ZeroResult]
                  /\ retErr' = retErr
             ELSE /\ pc' = "done"
                  /\ retErr' = Some("failed to create images directory")
                  /\ UNCHANGED <<results, tpc, tlocal>>
    /\ UNCHANGED <<doc, badURIs, ctxDone, tabs, spawned, allImages, dpc, sem, gctxDone, gerr,
                   warnings, fs, wi, writes,
                   convVars, flatVars, pureVars>>

\* one iteration of the loop over tabs: g.Go(func) starts the task of tab spawned + 1
SpawnTab ==
    /\ pc = "spawn"
    /\ spawned < Len(tabs)
    /\ spawned' = spawned + 1
    /\ tpc' = [tpc EXCEPT ![spawned + 1] = "start"]
    /\ UNCHANGED <<doc, badURIs, ctxDone, pc, tabs, dirs, tlocal, results, allImages, dpc, sem,
                   gctxDone, gerr, warnings, fs, wi, writes, retErr,
                   convVars, flatVars, pureVars>>

\* the task of tab i: tabTitle, sanitizeFilename, ConvertTab
TabConvert(i) ==
    /\ tpc[i] = "start"
    /\ tlocal' = [tlocal EXCEPT ![i] = tabTask(tabs[i], i)]
    /\ tpc' = [tpc EXCEPT ![i] = "store"]
    /\ UNCHANGED <<doc, badURIs, ctxDone, pc, tabs, dirs, spawned, results, allImages, dpc, sem,
                   gctxDone, gerr, warnings, fs, wi, writes, retErr,
                   convVars, flatVars, pureVars>>

\* a task that stores its result in the first slot
TabStoreFirstSlot(i) ==
    /\ tpc[i] = "store"
    /\ results' = [results EXCEPT ![1] = tlocal[i]]
    /\ tpc' = [tpc EXCEPT ![i] = "done"]
    /\ UNCHANGED <<doc, badURIs, ctxDone, pc, tabs, dirs, spawned, tlocal, allImages, dpc, sem,
                   gctxDone, gerr, warnings, fs, wi, writes, retErr,
                   convVars, flatVars, pureVars>>

\* a task that stores its result in the first slot no task has stored into yet
TabStoreByArrival(i) ==
    /\ tpc[i] = "store"
    /\ results' = [results EXCEPT ![Cardinality({j \in DOMAIN tpc : tpc[j] = "done"}) + 1] = tlocal[i]]
    /\ tpc' = [tpc EXCEPT ![i] = "done"]
    /\ UNCHANGED <<doc, badURIs, ctxDone, pc, tabs, dirs, spawned, tlocal, allImages, dpc, sem,
                   gctxDone, gerr, warnings, fs, wi, writes, retErr,
                   convVars, flatVars, pureVars>>

\* the task of tab i: results[i] = tabResult{...}; return nil
TabStore(i) ==
    /\ tpc[i] = "store"
    /\ results' = [results EXCEPT ![i] = tlocal[i]]
    /\ tpc' = [tpc EXCEPT ![i] = "done"]
    /\ UNCHANGED <<doc, badURIs, ctxDone, pc, tabs, dirs, spawned, tlocal, allImages, dpc, sem,
                   gctxDone, gerr, warnings, fs, wi, writes, retErr,
                   convVars, flatVars, pureVars>>

\* g.Wait() returns nil (no task returns an error); allImages is collected
WaitTabs ==
    /\ pc = "spawn"
    /\ spawned = Len(tabs)
    /\ AllAt(tpc, "done")
    /\ allImages' = collectImages(results)
    /\ pc' = IF Len(allImages') > 0 THEN "download" ELSE "write"
    /\ wi' = 1
    /\ UNCHANGED <<doc, badURIs, ctxDone, tabs, dirs, spawned, tpc, tlocal, results, dpc, sem,
                   gctxDone, gerr, warnings, fs, writes, retErr,
                   convVars, flatVars, pureVars>>

\* downloadImages up to g.Wait(): the group, the semaphore, one task per image
StartDownloads ==
    /\ pc = "download"
    /\ dpc' = [k \in 1..Len(allImages) |-> "wait"]
    /\ sem' = 0
    /\ warnings' = <<>>
    /\ gctxDone' = ctxDone
    /\ pc' = "waitDl"
    /\ UNCHANGED <<doc, badURIs, ctxDone, tabs, dirs, spawned, tpc, tlocal, results, allImages,
                   gerr, fs, wi, writes, retErr,
                   convVars, flatVars, pureVars>>

\* the URIs whose download, when it fails, fails in io.Copy, after os.Create has made
\* the file; the download of any other URI fails before the file is made
CopyFails == {UriPng}

\* a semaphore that admits one task more than it has slots
DlAcquireOffByOne(k) ==
    /\ dpc[k] = "wait"
    /\ sem <= SemCap
    /\ sem' = sem + 1
    /\ dpc' = [dpc EXCEPT ![k] = "inflight"]
    /\ UNCHANGED <<doc, badURIs, ctxDone, pc, tabs, dirs, spawned, tpc, tlocal, results, allImages,
                   gctxDone, gerr, warnings, fs, wi, writes, retErr,
                   convVars, flatVars, pureVars>>

\* download task k: sem <- struct{}{}
DlAcquire(k) ==
    /\ dpc[k] = "wait"
    /\ sem < SemCap
    /\ sem' = sem + 1
    /\ dpc' = [dpc EXCEPT ![k] = "inflight"]
    /\ UNCHANGED <<doc, badURIs, ctxDone, pc, tabs, dirs, spawned, tpc, tlocal, results, allImages,
                   gctxDone, gerr, warnings, fs, wi, writes, retErr,
                   convVars, flatVars, pureVars>>

\* a task that reads the loop variable of downloadImages instead of its own copy: by
\* the time it runs, the variable holds the last image
DlFinishLoopVariable(k) ==
    /\ dpc[k] \in {"inflight", "aborting"}
    /\ LET img == allImages[Len(allImages)]
           err == IF gctxDone \/ img.ref.ContentURI \in badURIs THEN Some("download failed") ELSE Nil
           ret == downloadTaskReturn(err)
       IN  /\ fs' = IF err = Nil THEN WriteFile(fs, imagePath(img), img.ref.ContentURI)
                   ELSE IF ~gctxDone /\ img.ref.ContentURI \in CopyFails
                   THEN WriteFile(fs, imagePath(img), <<>>)
                   ELSE fs
           /\ warnings' = IF err # Nil
                          THEN Append(warnings, img.ref.Filename \o <<":", " ", "e", "r", "r">>)
                          ELSE warnings
           /\ gerr' = IF gerr = Nil THEN ret ELSE gerr
           /\ gctxDone' = (gctxDone \/ ret # Nil)
    /\ sem' = sem - 1
    /\ dpc' = [dpc EXCEPT ![k] = "done"]
    /\ UNCHANGED <<doc, badURIs, ctxDone, pc, tabs, dirs, spawned, tpc, tlocal, results, allImages,
                   wi, writes, retErr,
                   convVars, flatVars, pureVars>>

\* a download that goes through whatever the context
DlFinishIgnoresContext(k) ==
    /\ dpc[k] \in {"inflight", "aborting"}
    /\ LET img == allImages[k]
           err == IF img.ref.ContentURI \in badURIs THEN Some("download failed") ELSE Nil
           ret == downloadTaskReturn(err)
       IN  /\ fs' = IF err = Nil THEN WriteFile(fs, imagePath(img), img.ref.ContentURI)
                   ELSE IF img.ref.ContentURI \in CopyFails
                   THEN WriteFile(fs, imagePath(img), <<>>)
                   ELSE fs
           /\ warnings' = IF err # Nil
                          THEN Append(warnings, img.ref.Filename \o <<":", " ", "e", "r", "r">>)
                          ELSE warnings
           /\ gerr' = IF gerr = Nil THEN ret ELSE gerr
           /\ gctxDone' = (gctxDone \/ ret # Nil)
    /\ sem' = sem - 1
    /\ dpc' = [dpc EXCEPT ![k] = "done"]
    /\ UNCHANGED <<doc, badURIs, ctxDone, pc, tabs, dirs, spawned, tpc, tlocal, results, allImages,
                   wi, writes, retErr,
                   convVars, flatVars, pureVars>>

\* download task k: downloadImage, the warning if it failed, <-sem, return.  A download
\* started under a cancelled context fails before the file is made; one that was under
\* way when the context was cancelled fails with the file made or not
DlFinish(k) ==
    /\ dpc[k] \in {"inflight", "aborting"}
    /\ LET img == allImages[k]
           err == IF gctxDone \/ img.ref.ContentURI \in badURIs THEN Some("download failed") ELSE Nil
           ret == downloadTaskReturn(err)
       IN  /\ \E made \in BOOLEAN :
                 /\ made = IF dpc[k] = "aborting" THEN made
                           ELSE (err # Nil /\ ~gctxDone /\ img.ref.ContentURI \in CopyFails)
                 /\ fs' = IF err = Nil THEN WriteFile(fs, imagePath(img), img.ref.ContentURI)
                          ELSE IF made THEN WriteFile(fs, imagePath(img), <<>>)
                          ELSE fs
           /\ warnings' = IF err # Nil
                          THEN Append(warnings, img.ref.Filename \o <<":", " ", "e", "r", "r">>)
                          ELSE warnings
           /\ gerr' = IF gerr = Nil THEN ret ELSE gerr
           /\ gctxDone' = (gctxDone \/ ret # Nil)
    /\ sem' = sem - 1
    /\ dpc' = [dpc EXCEPT ![k] = "done"]
    /\ UNCHANGED <<doc, badURIs, ctxDone, pc, tabs, dirs, spawned, tpc, tlocal, results, allImages,
                   wi, writes, retErr,
                   convVars, flatVars, pureVars>>

\* the context given to ExportDoc is cancelled while downloadImages runs: gctx, derived
\* from it, is cancelled with it, and the downloads under way are aborted
Cancel ==
    /\ ~ctxDone
    /\ pc \in {"download", "waitDl"}
    /\ ctxDone' = TRUE
    /\ gctxDone' = (gctxDone \/ pc = "waitDl")
    /\ dpc' = [k \in DOMAIN dpc |-> IF dpc[k] = "inflight" THEN "aborting" ELSE dpc[k]]
    /\ UNCHANGED <<doc, badURIs, pc, tabs, dirs, spawned, tpc, tlocal, results, allImages,
                   sem, gerr, warnings, fs, wi, writes, retErr,
                   convVars, flatVars, pureVars>>

\* a wait that returns while download tasks are still running
WaitDownloadsEarly ==
    /\ pc = "waitDl"
    /\ IF gerr # Nil
       THEN /\ pc' = "done"
            /\ retErr' = gerr
       ELSE /\ pc' = "write"
            /\ retErr' = retErr
    /\ gctxDone' = TRUE
    /\ UNCHANGED <<doc, badURIs, ctxDone, tabs, dirs, spawned, tpc, tlocal, results, allImages, dpc,
                   sem, gerr, warnings, fs, wi, writes,
                   convVars, flatVars, pureVars>>

\* g.Wait() in downloadImages returns; ExportDoc returns its error, if any
WaitDownloads ==
    /\ pc = "waitDl"
    /\ AllAt(dpc, "done")
    /\ IF gerr # Nil
       THEN /\ pc' = "done"
            /\ retErr' = gerr
       ELSE /\ pc' = "write"
            /\ retErr' = retErr
    /\ gctxDone' = TRUE
    /\ UNCHANGED <<doc, badURIs, ctxDone, tabs, dirs, spawned, tpc, tlocal, results, allImages, dpc,
                   sem, gerr, warnings, fs, wi, writes,
                   convVars, flatVars, pureVars>>

\* os.WriteFile: it may fail to open the file, or fail after it truncated the file
WriteOutcomes == {"ok", "open failed", "write failed"}

\* a loop that notes a failed write and goes on with the next file
WriteMarkdownKeepsGoing ==
    /\ pc = "write"
    /\ wi <= Len(results)
    /\ \E o \in WriteOutcomes :
          /\ fs' = IF o = "ok" THEN WriteFile(fs, results[wi].filename, results[wi].result.Markdown)
                   ELSE IF o = "write failed" THEN WriteFile(fs, results[wi].filename, <<>>)
                   ELSE fs
          /\ writes' = IF o = "open failed" THEN writes ELSE Append(writes, results[wi].filename)
          /\ retErr' = IF o = "ok" THEN retErr ELSE Some("failed to write")
    /\ wi' = wi + 1
    /\ pc' = pc
    /\ UNCHANGED <<doc, badURIs, ctxDone, tabs, dirs, spawned, tpc, tlocal, results, allImages, dpc,
                   sem, gctxDone, gerr, warnings,
                   convVars, flatVars, pureVars>>

\* one iteration of the loop that writes the Markdown files
WriteMarkdown ==
    /\ pc = "write"
    /\ wi <= Len(results)
    /\ \E o \in WriteOutcomes :
          /\ fs' = IF o = "ok" THEN WriteFile(fs, results[wi].filename, results[wi].result.Markdown)
                   ELSE IF o = "write failed" THEN WriteFile(fs, results[wi].filename, <<>>)
                   ELSE fs
          /\ writes' = IF o = "open failed" THEN writes ELSE Append(writes, results[wi].filename)
          /\ IF o = "ok"
             THEN /\ wi' = wi + 1
                  /\ UNCHANGED <<pc, retErr>>
             ELSE /\ pc' = "done"
                  /\ retErr' = Some("failed to write")
                  /\ wi' = wi
    /\ UNCHANGED <<doc, badURIs, ctxDone, tabs, dirs, spawned, tpc, tlocal, results, allImages, dpc,
                   sem, gctxDone, gerr, warnings,
                   convVars, flatVars, pureVars>>

\* the index: generateIndex, os.WriteFile, return
WriteIndex ==
    /\ pc = "write"
    /\ wi > Len(results)
    /\ \E o \in WriteOutcomes :
          /\ fs' = IF o = "ok" THEN WriteFile(fs, IndexPath, generateIndex(results))
                   ELSE IF o = "write failed" THEN WriteFile(fs, IndexPath, <<>>)
                   ELSE fs
          /\ writes' = IF o = "open failed" THEN writes ELSE Append(writes, IndexPath)
          /\ retErr' = IF o = "ok" THEN Nil ELSE Some("failed to write tabs.md")
    /\ pc' = "done"
    /\ UNCHANGED <<doc, badURIs, ctxDone, tabs, dirs, spawned, tpc, tlocal, results, allImages, dpc,
                   sem, gctxDone, gerr, warnings, wi,
                   convVars, flatVars, pureVars>>

-----------------------------------------------------------------------------
(* flattenTabs alone *)

FlatIdle ==
    /\ ftree = <<>>
    /\ fout = Nil
    /\ fagain = Nil

PureIdle ==
    /\ run = Nil
    /\ rout = Nil
    /\ tbl = Nil
    /\ tout = Nil

FlatInit ==
    /\ ftree \in UNION { Forests(<<>>, 1, n, BareKinds) : n \in 0..MaxFlatTabs }
    /\ fout = Nil
    /\ fagain = Nil

FlattenCall ==
    /\ fout = Nil
    /\ fout' = Some(flattenTabs(ftree))
    /\ UNCHANGED <<ftree, fagain>>
    /\ UNCHANGED <<exportVars, convVars, pureVars>>

\* the tabs of a sequence, each without its children
Childless(ts) == [i \in DOMAIN ts |-> [ts[i] EXCEPT !.ChildTabs = <<>>]]

\* flattenTabs called on its own result, taken as a flat sequence of childless tabs
FlattenAgain ==
    /\ fout # Nil
    /\ fagain = Nil
    /\ fagain' = Some(flattenTabs(Childless(fout[1])))
    /\ UNCHANGED <<ftree, fout>>
    /\ UNCHANGED <<exportVars, convVars, pureVars>>

-----------------------------------------------------------------------------
(* renderTextRun alone *)

UrlX == <<"h", "t", "t", "p", "s", ":", "/", "/", "x">>

RunContents ==
    { <<"h", "i">>, <<"h", "i", "\n">>, <<" ", "h", "i", " ", "\n">>, <<"h", "i", "\n", "\n">>,
      NL, <<"\n", "\n">>, <<" ">>, <<>> }

FontFamilies ==
    { <<"A", "r", "i", "a", "l">>, <<"C", "o", "n", "s", "o", "l", "a", "s">>,
      <<"M", "y", " ", "M", "o", "n", "o">> }

TextStyles ==
    [Bold : BOOLEAN, Italic : BOOLEAN, Strikethrough : BOOLEAN,
     Link : {Nil, Some([Url |-> <<>>]), Some([Url |-> UrlX])},
     WeightedFontFamily : {Nil} \cup {Some([FontFamily |-> f]) : f \in FontFamilies}]

Runs == [Content : RunContents, TextStyle : {Nil} \cup {Some(st) : st \in TextStyles}]

RunInit ==
    /\ run \in {Some(tr) : tr \in Runs}
    /\ rout = Nil
    /\ tbl = Nil
    /\ tout = Nil

RenderRun ==
    /\ run # Nil
    /\ rout = Nil
    /\ rout' = Some(renderTextRun(run[1]))
    /\ UNCHANGED <<run, tbl, tout>>
    /\ UNCHANGED <<exportVars, convVars, flatVars>>

-----------------------------------------------------------------------------
(* convertTable alone *)

\* the contents of a table cell: one paragraph with the text a; two paragraphs with
\* pipes, a backslash before a pipe and newlines; nothing
CellContents ==
    { <<Paragraph("NORMAL_TEXT", Nil, <<TextRun(<<"a", "\n">>, Nil)>>)>>,
      <<Paragraph("NORMAL_TEXT", Nil, <<TextRun(<<"p", "|", "\n", "q", "\n">>, Nil)>>),
        Paragraph("NORMAL_TEXT", Nil, <<TextRun(<<"\\", "|", "\n">>, Nil)>>)>>,
      <<>> }

\* the rows of n cells
RowsOf(n) == [1..n -> CellContents]

TableRowSets == UNION { RowsOf(n) : n \in 0..MaxCols }

\* the table of the given rows of cell contents
TableOf(rows) == Table(rows).Table[1]

TableInit ==
    /\ run = Nil
    /\ rout = Nil
    /\ \E m \in 0..MaxRows : \E rows \in [1..m -> TableRowSets] : tbl = Some(TableOf(rows))
    /\ tout = Nil

ConvertTableCall ==
    /\ tbl # Nil
    /\ tout = Nil
    /\ tout' = Some(convertTable(NewConverter(0), ConvTabValue, tbl[1]).buf)
    /\ UNCHANGED <<run, rout, tbl>>
    /\ UNCHANGED <<exportVars, convVars, flatVars>>

-----------------------------------------------------------------------------
(* The specifications *)

\* ExportDoc on the document trees of Docs
Init == ExportInit /\ ConvIdle /\ FlatIdle /\ PureIdle
Next ==
    \/ Flatten
    \/ MkdirAll
    \/ SpawnTab
    \/ \E i \in DOMAIN tpc : TabConvert(i)
    \/ \E i \in DOMAIN tpc : TabStore(i)
    \/ WaitTabs
    \/ StartDownloads
    \/ \E k \in DOMAIN dpc : DlAcquire(k)
    \/ \E k \in DOMAIN dpc : DlFinish(k)
    \/ WaitDownloads
    \/ WriteMarkdown
    \/ WriteIndex
Spec == Init /\ [][Next]_vars

\* ExportDoc on the document that holds one image more than the semaphore has slots
InitMany == ExportManyInit /\ ConvIdle /\ FlatIdle /\ PureIdle
SpecMany == InitMany /\ [][Next]_vars

\* ExportDoc under a context that its caller may cancel during downloadImages; the
\* goroutines of the download errgroup and the caller of its Wait keep being scheduled
MaxCancelTabs == 1
CancelDocs == UNION { Forests(<<>>, 1, n, TabKinds) : n \in 0..MaxCancelTabs }
ExportCancelInit ==
    /\ doc \in CancelDocs
    /\ badURIs \in SUBSET {UriPng, UriRaw}
    /\ ExportStart
InitCancel == ExportCancelInit /\ ConvIdle /\ FlatIdle /\ PureIdle
NextCancel == Next \/ Cancel
DownloadsRun ==
    /\ WF_vars(StartDownloads)
    /\ WF_vars(\E k \in DOMAIN dpc : DlAcquire(k))
    /\ WF_vars(\E k \in DOMAIN dpc : DlFinish(k))
    /\ WF_vars(WaitDownloads)
SpecCancel == InitCancel /\ [][NextCancel]_vars /\ DownloadsRun

\* one ConvertTab call, one structural element at a time
InitConv == ExportIdle /\ ConvInit /\ FlatIdle /\ PureIdle
NextConv ==
    \/ \E e \in ListItems \cup OtherElements : ConvertInList(e)
    \/ \E e \in PlainParagraphs : ConvertPlain(e)
SpecConv == InitConv /\ [][NextConv]_vars

\* ConvertTab on the tabs of ParaTabs, element by element
InitPara == ExportIdle /\ ParaInit /\ FlatIdle /\ PureIdle
NextPara ==
    \/ \E e \in ImageParagraphs : ConvertElement(e)
    \/ \E e \in ImageTables : ConvertElement(e)
SpecPara == InitPara /\ [][NextPara]_vars

\* convertParagraph on the paragraphs of StyleParagraphs and StyleListItems
InitStyle == ExportIdle /\ StyleInit /\ FlatIdle /\ PureIdle
NextStyle == \E e \in StyleParagraphs \cup StyleListItems : ConvertParagraphCall(e)
SpecStyle == InitStyle /\ [][NextStyle]_vars

\* flattenTabs on the trees of up to MaxFlatTabs tabs
InitFlat == ExportIdle /\ ConvIdle /\ FlatInit /\ PureIdle
NextFlat == FlattenCall \/ FlattenAgain
SpecFlat == InitFlat /\ [][NextFlat]_vars

-----------------------------------------------------------------------------
(* Image filenames *)

Filenames(imgs) == [k \in DOMAIN imgs |-> imgs[k].ref.Filename]
PairwiseDistinct(f) == \A j, k \in DOMAIN f : j # k => f[j] # f[k]

\* C1: in every state of every interleaving of the tab tasks, the filenames of the
\* image requests held by the results, and of those ExportDoc has collected from
\* them, are pairwise distinct.
C1_FilenamesDistinct ==
    /\ PairwiseDistinct(Filenames(collectImages(results)))
    /\ PairwiseDistinct(Filenames(allImages))

\* images of two tabs, two of them of one tab, have been collected
C1_Witness ==
    /\ Len(results) = 2
    /\ Len(results[1].result.Images) = 1
    /\ Len(results[2].result.Images) = 2
    /\ Len(allImages) = 3

-----------------------------------------------------------------------------
(* Numbering of ordered list items *)

\* the line of a list item whose text is x
OrderedLine(level, n) == Repeat(<<" ", " ">>, level) \o Itoa(n) \o <<".", " ", "x", "\n">>

ItemPositions == {k \in DOMAIN hist : IsListItem(hist[k])}
ItemOrdered(k) == listItemOrdered(ConvTabValue, ItemList(hist[k]), ItemLevel(hist[k]))

\* the list items of hist before position k
ItemsBefore(k) == {j \in 1..(k - 1) : IsListItem(hist[j])}

\* the positions from which the items at the level of item k are counted: the start of
\* the list context, an item whose list differs from that of the item before it, the
\* position after an item at a shallower level
CountStarts(k) ==
    {1}
    \cup {j \in 2..k :
             /\ IsListItem(hist[j])
             /\ LET before == ItemsBefore(j)
                IN  before # {} /\ ItemList(hist[Max(before)]) # ItemList(hist[j])}
    \cup {j + 1 : j \in {i \in ItemsBefore(k) : ItemLevel(hist[i]) < ItemLevel(hist[k])}}

ExpectedLabel(k) ==
    LET from == Max(CountStarts(k))
    IN  Cardinality({j \in from..k : IsListItem(hist[j]) /\ ItemLevel(hist[j]) = ItemLevel(hist[k])})

\* C2: the label of every ordered list item at level L is the number of list items at
\* level L, itself included, since the most recent of the start of the list context, a
\* switch of list identifier and an item at a level shallower than L.
C2_LabelCountsItemsAtLevel ==
    \A k \in ItemPositions :
        ItemOrdered(k) => outs[k] = OrderedLine(ItemLevel(hist[k]), ExpectedLabel(k))

\* levels 0, 0, 1, 1, 0 of one ordered list have been labelled 1, 2, 1, 2, 3
C2_Witness ==
    /\ Len(hist) = 5
    /\ \A k \in 1..5 : IsListItem(hist[k]) /\ ItemList(hist[k]) = "L1"
    /\ [k \in 1..5 |-> ItemLevel(hist[k])] = <<0, 0, 1, 1, 0>>
    /\ outs = <<OrderedLine(0, 1), OrderedLine(0, 2), OrderedLine(1, 1), OrderedLine(1, 2),
                OrderedLine(0, 3)>>

\* C3: a step that converts a list item whose list identifier differs from the tracker's
\* leaves the tracker with the one counter of that item, at 1, and if the item is
\* ordered the line written is labelled 1.
C3_SwitchStep ==
    \A e \in ListItems :
        (/\ hist' = Append(hist, e)
         /\ cv.listState.listID # ItemList(e))
        => /\ cv'.listState.listID = ItemList(e)
           /\ cv'.listState.itemCounts = Some([l \in {ItemLevel(e)} |-> 1])
           /\ listItemOrdered(ConvTabValue, ItemList(e), ItemLevel(e))
                  => cv'.buf = OrderedLine(ItemLevel(e), 1)
C3_ListSwitchRestartsAtOne == [][C3_SwitchStep]_vars

\* an ordered item at level 1 of list L1 was labelled 1 after two items of list L2
C3_Witness ==
    /\ Len(hist) = 3
    /\ \A k \in 1..2 : IsListItem(hist[k]) /\ ItemList(hist[k]) = "L2" /\ ItemLevel(hist[k]) = 0
    /\ IsListItem(hist[3]) /\ ItemList(hist[3]) = "L1" /\ ItemLevel(hist[3]) = 1
    /\ cv.listState.listID = "L1"
    /\ outs[3] = OrderedLine(1, 1)

\* C4: after a paragraph without a bullet the tracker is in its initial state, and the
\* first list item converted after it, if ordered, is labelled 1.
C4_ParagraphResetsTracker ==
    /\ (last # Nil /\ IsPlainParagraph(last[1])) => cv.listState = ZeroTracker
    /\ \A k \in ItemPositions :
          (ItemsBefore(k) = {} /\ ItemOrdered(k)) => outs[k] = OrderedLine(ItemLevel(hist[k]), 1)

\* an ordered item at level 1 was labelled 1 after a paragraph that followed items of
\* the same list
C4_Witness ==
    /\ prior = Some("L1")
    /\ Len(hist) = 1
    /\ IsListItem(hist[1]) /\ ItemList(hist[1]) = "L1" /\ ItemLevel(hist[1]) = 1
    /\ outs[1] = OrderedLine(1, 1)

-----------------------------------------------------------------------------
(* The download phase *)

InFlight == {k \in DOMAIN dpc : dpc[k] \in {"inflight", "aborting"}}
Waiting == {k \in DOMAIN dpc : dpc[k] = "wait"}

\* C5: at most SemCap downloads are in flight, each holding one slot of the semaphore,
\* and while SemCap are in flight no waiting task can start its download.
C5_AtMostTenInFlight ==
    /\ Cardinality(InFlight) <= SemCap
    /\ sem = Cardinality(InFlight)
    /\ Cardinality(InFlight) = SemCap => \A k \in Waiting : ~ENABLED DlAcquire(k)

\* ten downloads are in flight and the eleventh task waits
C5_Witness ==
    /\ Cardinality(InFlight) = SemCap
    /\ Waiting # {}

DownloadFails(k) == allImages[k].ref.ContentURI \in badURIs
Finished == {k \in DOMAIN dpc : dpc[k] = "done"}
WarningOf(k) == allImages[k].ref.Filename \o <<":", " ", "e", "r", "r">>

\* C6: a download that fails leaves a warning and nothing else: every finished download
\* of a reachable image has written its file, the group holds no error, and an export
\* that reached the download phase ends with success or with a write error.
C6_DownloadFailureIsWarning ==
    /\ gerr = Nil
    /\ \A k \in Finished :
          IF DownloadFails(k)
          THEN WarningOf(k) \in Range(warnings)
          ELSE HasKey(fs, imagePath(allImages[k])) /\ fs[imagePath(allImages[k])] = allImages[k].ref.ContentURI
    /\ Len(warnings) = Cardinality({k \in Finished : DownloadFails(k)})
    /\ pc = "waitDl" /\ Finished = DOMAIN dpc => ENABLED WaitDownloads
    /\ (pc = "done" /\ dpc # <<>>)
          => retErr \in {Nil, Some("failed to write"), Some("failed to write tabs.md")}

\* an export with a failed download and a successful one has ended with success, its
\* Markdown files and its index written
C6_Witness ==
    /\ pc = "done"
    /\ retErr = Nil
    /\ \E k \in Finished : DownloadFails(k)
    /\ \E k \in Finished : ~DownloadFails(k)
    /\ \A i \in DOMAIN results : HasKey(fs, results[i].filename)
    /\ HasKey(fs, IndexPath)

-----------------------------------------------------------------------------
(* The files written *)

TabFile(tab) == sanitizeFilename(tabTitle(tab)) \o <<".", "m", "d">>

\* C7: nothing is written before every tab task and every download task has finished;
\* the k-th file written is that of the k-th tab of the flattened tree, and tabs.md
\* comes after the file of the last tab.
C7_WritesAfterTasksInOrder ==
    /\ writes # <<>> => (tpc # <<>> /\ AllAt(tpc, "done") /\ AllAt(dpc, "done"))
    /\ Len(writes) <= Len(flattenTabs(doc)) + 1
    /\ \A k \in DOMAIN writes :
          writes[k] = IF k <= Len(flattenTabs(doc)) THEN TabFile(flattenTabs(doc)[k]) ELSE IndexPath
    /\ \A p \in DOMAIN fs : p \in Range(writes) \/ \E k \in DOMAIN allImages : p = imagePath(allImages[k])

\* two tabs with images: both files and then the index have been written
C7_Witness ==
    /\ Len(tabs) = 2
    /\ Len(dpc) >= 2
    /\ Len(writes) = 3
    /\ writes[3] = IndexPath

\* the results and the files of an export that converts and writes one tab after the other
RefResults(d) == [i \in 1..Len(flattenTabs(d)) |-> tabTask(flattenTabs(d)[i], i)]

RECURSIVE RefWrites(_, _)
RefWrites(files, rs) ==
    IF rs = <<>> THEN files
    ELSE RefWrites(WriteFile(files, Head(rs).filename, Head(rs).result.Markdown), Tail(rs))

RefFiles(d) == WriteFile(RefWrites(<<>>, RefResults(d)), IndexPath, generateIndex(RefResults(d)))

ImagePaths == {imagePath(allImages[k]) : k \in DOMAIN allImages}

\* C8: whatever the interleaving and whichever downloads fail, the results of the tab
\* tasks, when the last of them has finished, and the Markdown files and tabs.md of a
\* successful export are those of the document converted and written one tab after
\* the other.
C8_OutputIndependentOfSchedule ==
    /\ (pc = "spawn" /\ tpc # <<>> /\ AllAt(tpc, "done")) => results = RefResults(doc)
    /\ (pc = "done" /\ retErr = Nil)
          => LET ref == RefFiles(doc)
             IN  /\ (DOMAIN fs) \ ImagePaths = DOMAIN ref
                 /\ \A p \in DOMAIN ref : fs[p] = ref[p]

\* a successful export of two tabs with different results, some of whose downloads
\* failed
C8_Witness ==
    /\ pc = "done"
    /\ retErr = Nil
    /\ Len(tabs) = 2
    /\ results[1] # results[2]
    /\ warnings # <<>>
    /\ Len(warnings) < Len(allImages)

\* C9: after a successful export, distinct tabs of the flattened sequence have been
\* written to distinct paths and the file of each tab holds its Markdown.
C9_EveryTabOwnFile ==
    (pc = "done" /\ retErr = Nil)
        => /\ \A i, j \in DOMAIN tabs : i # j => results[i].filename # results[j].filename
           /\ \A i \in DOMAIN tabs :
                 /\ HasKey(fs, results[i].filename)
                 /\ fs[results[i].filename] = results[i].result.Markdown

-----------------------------------------------------------------------------
(* flattenTabs *)

\* the tabs of a forest
RECURSIVE TreeTabs(_)
TreeTabs(ts) == UNION { {ts[i]} \cup TreeTabs(ts[i].ChildTabs) : i \in DOMAIN ts }

\* the place of tab t in the sequence out
Pos(out, t) == CHOOSE i \in DOMAIN out : out[i] = t

\* the sibling lists of a forest
SiblingLists(ts) == {ts} \cup {t.ChildTabs : t \in TreeTabs(ts)}

PreOrder(ts, out) ==
    \* each tab exactly once
    /\ \A t \in TreeTabs(ts) : Cardinality({i \in DOMAIN out : out[i] = t}) = 1
    /\ Range(out) \subseteq TreeTabs(ts)
    \* a tab is immediately followed by its subtree, first child first
    /\ \A i \in DOMAIN out :
          LET n == Cardinality(TreeTabs(out[i].ChildTabs))
          IN  /\ i + n <= Len(out)
              /\ {out[j] : j \in (i + 1)..(i + n)} = TreeTabs(out[i].ChildTabs)
              /\ n > 0 => out[i + 1] = out[i].ChildTabs[1]
    \* the subtree of a tab precedes every later sibling
    /\ \A sibs \in SiblingLists(ts) :
          \A a, b \in DOMAIN sibs :
              a < b => \A t \in TreeTabs(<<sibs[a]>>) : Pos(out, t) < Pos(out, sibs[b])
    /\ ts # <<>> => out[1] = ts[1]

\* C10: flattenTabs returns the tabs of the tree in depth-first pre-order, each tab
\* exactly once.
C10_FlattenIsPreOrder == fout # Nil => PreOrder(ftree, fout[1])

\* a tree flattened in which a tab with a child is followed by a sibling with a child
C10_Witness ==
    /\ fout # Nil
    /\ Len(ftree) = 2
    /\ Len(ftree[1].ChildTabs) = 1
    /\ Len(ftree[2].ChildTabs) = 1
    /\ Len(fout[1]) >= 4

\* C11: flattenTabs applied to its own result, taken as a flat sequence of childless
\* tabs, returns that sequence.
C11_FlattenIdempotent == fagain # Nil => fagain[1] = Childless(fout[1])

\* a tree with a child tab has been flattened, and its result flattened again
C11_Witness ==
    /\ fagain # Nil
    /\ Len(ftree) >= 2
    /\ \E i \in DOMAIN ftree : ftree[i].ChildTabs # <<>>
    /\ Len(fagain[1]) >= 3

\* renderTextRun on the text runs of Runs
InitRun == ExportIdle /\ ConvIdle /\ FlatIdle /\ RunInit
NextRun == RenderRun
SpecRun == InitRun /\ [][NextRun]_vars

-----------------------------------------------------------------------------
(* Text runs *)

RunStyled == run # Nil /\ rout # Nil /\ run[1].TextStyle # Nil
RunStyle == run[1].TextStyle[1]

\* the bold and italic marker of a style
EmphasisMarker(st) ==
    IF st.Bold /\ st.Italic THEN <<"*", "*", "*">>
    ELSE IF st.Bold THEN <<"*", "*">>
    ELSE IF st.Italic THEN <<"*">>
    ELSE <<>>

StrikeMarker(st) == IF st.Strikethrough THEN <<"~", "~">> ELSE <<>>

\* text in its markers: bold and italic innermost, then strikethrough, then the link
Nested(st, text) ==
    LET inner == StrikeMarker(st) \o EmphasisMarker(st) \o text \o EmphasisMarker(st) \o StrikeMarker(st)
    IN  IF st.Link # Nil /\ st.Link[1].Url # <<>>
        THEN <<"[">> \o inner \o <<"]", "(">> \o st.Link[1].Url \o <<")">>
        ELSE inner

\* the content of a run without its trailing newlines
RECURSIVE StyledText(_)
StyledText(text) ==
    IF text # <<>> /\ text[Len(text)] = "\n" THEN StyledText(SubSeq(text, 1, Len(text) - 1)) ELSE text

EndsInNewline(text) == text # <<>> /\ text[Len(text)] = "\n"

\* C12: a run that is not monospace, whose content is not empty once its trailing
\* newlines are removed, is rendered as that text in its markers, bold and italic
\* innermost, then strikethrough, then the link if its URL is not empty, followed by
\* one newline if the content ended in one.
C12_MarkersNestInFixedOrder ==
    (RunStyled /\ ~isMonospace(RunStyle) /\ StyledText(run[1].Content) # <<>>)
        => rout[1] = Nested(RunStyle, StyledText(run[1].Content))
                     \o (IF EndsInNewline(run[1].Content) THEN NL ELSE <<>>)

\* bold, strikethrough and the link https://x on the content hi were rendered as
\* [~~**hi**~~](https://x)
C12_Witness ==
    /\ RunStyled
    /\ run[1].Content = <<"h", "i">>
    /\ RunStyle.Bold /\ ~RunStyle.Italic /\ RunStyle.Strikethrough
    /\ RunStyle.Link = Some([Url |-> UrlX])
    /\ ~isMonospace(RunStyle)
    /\ rout[1] = <<"[", "~", "~", "*", "*", "h", "i", "*", "*", "~", "~", "]", "(">> \o UrlX \o <<")">>

\* C12 as stated, for every run with non-empty content: the markers of the style are
\* around the content, the newlines at its end apart.
C12_EveryNonEmptyContent ==
    (RunStyled /\ ~isMonospace(RunStyle) /\ run[1].Content # <<>>)
        => rout[1] = Nested(RunStyle, StyledText(run[1].Content))
                     \o (IF EndsInNewline(run[1].Content) THEN NL ELSE <<>>)

\* C13: a monospace run whose trimmed content is not empty is rendered as its trimmed
\* content between two backticks and nothing else, whatever its other style fields.
C13_MonospaceIsExclusive ==
    (RunStyled /\ isMonospace(RunStyle) /\ TrimSpace(run[1].Content) # <<>>)
        => rout[1] = <<Backtick>> \o TrimSpace(run[1].Content) \o <<Backtick>>

\* a bold, struck-through, linked run in Consolas was rendered as inline code
C13_Witness ==
    /\ RunStyled
    /\ RunStyle.WeightedFontFamily = Some([FontFamily |-> <<"C", "o", "n", "s", "o", "l", "a", "s">>])
    /\ RunStyle.Bold /\ RunStyle.Strikethrough /\ RunStyle.Link = Some([Url |-> UrlX])
    /\ run[1].Content = <<" ", "h", "i", " ", "\n">>
    /\ rout[1] = <<Backtick, "h", "i", Backtick>>

\* convertTable on the tables of Tables
InitTable == ExportIdle /\ ConvIdle /\ FlatIdle /\ TableInit
NextTable == ConvertTableCall
SpecTable == InitTable /\ [][NextTable]_vars

-----------------------------------------------------------------------------
(* Tables *)

TableDone == tbl # Nil /\ tout # Nil
TableRowCount == Len(tbl[1].TableRows)
RowCellCount(i) == Len(tbl[1].TableRows[i].TableCells)

\* the text emitted for cell j of row i
EmittedCell(i, j) ==
    escapeCell(cellTextFrom([c |-> NewConverter(0), s |-> <<>>], ConvTabValue,
                            tbl[1].TableRows[i].TableCells[j].Content).s)

\* a table line of the given cells
RECURSIVE CellsJoined(_)
CellsJoined(cells) ==
    IF cells = <<>> THEN <<>>
    ELSE IF Len(cells) = 1 THEN cells[1]
    ELSE cells[1] \o <<" ", "|", " ">> \o CellsJoined(Tail(cells))

LineOf(cells) == <<"|", " ">> \o CellsJoined(cells) \o <<" ", "|", "\n">>

\* the cells of row i, with empty cells after them up to n cells
RowPadded(i, n) ==
    [j \in 1..Max({n, RowCellCount(i)}) |-> IF j <= RowCellCount(i) THEN EmittedCell(i, j) ELSE <<>>]

RECURSIVE LinesFrom(_, _)
LinesFrom(i, n) == IF i > TableRowCount THEN <<>> ELSE LineOf(RowPadded(i, n)) \o LinesFrom(i + 1, n)

\* C14: a table with rows is emitted as the line of its first row, the line of one ---
\* cell per cell of the first row, the line of every other row with empty cells after
\* its own up to the width of the first row, and an empty line; a table without rows
\* emits nothing.
C14_HeaderSeparatorPadding ==
    TableDone =>
        IF TableRowCount = 0 THEN tout[1] = <<>>
        ELSE tout[1] = LineOf(RowPadded(1, 0))
                       \o LineOf([j \in 1..RowCellCount(1) |-> <<"-", "-", "-">>])
                       \o LinesFrom(2, RowCellCount(1))
                       \o NL

\* a header of two cells and a data row of one cell gave a separator of two cells and
\* a data row with an empty cell at its end
C14_Witness ==
    /\ TableDone
    /\ TableRowCount = 2
    /\ RowCellCount(1) = 2 /\ RowCellCount(2) = 1
    /\ tout[1] = <<"|", " ", "a", " ", "|", " ", "a", " ", "|", "\n">>
                 \o <<"|", " ", "-", "-", "-", " ", "|", " ", "-", "-", "-", " ", "|", "\n">>
                 \o <<"|", " ", "a", " ", "|", " ", " ", "|", "\n">>
                 \o NL

\* the lines of a text: what stands before each newline
RECURSIVE SplitLines(_, _)
SplitLines(text, line) ==
    IF text = <<>> THEN <<>>
    ELSE IF Head(text) = "\n" THEN <<line>> \o SplitLines(Tail(text), <<>>)
    ELSE SplitLines(Tail(text), Append(line, Head(text)))

\* the pipes of a text that no backslash precedes
BarePipes(text) == {k \in DOMAIN text : text[k] = "|" /\ (k = 1 \/ text[k - 1] # "\\")}

\* the cell boundaries of a line of n cells; a line without cells has those of one
\* empty cell
Boundaries(n) == IF n = 0 THEN 2 ELSE n + 1

\* the cells of the k-th line emitted: the header, the separator, the data rows
LineCellCount(k) ==
    IF k <= 2 THEN RowCellCount(1) ELSE Max({RowCellCount(1), RowCellCount(k - 1)})

\* C15: no emitted cell holds a newline, every pipe of an emitted cell has a backslash
\* before it, and the text emitted is one line per row, one for the separator and an
\* empty one, each with exactly the cell boundaries of its row as pipes without a
\* backslash before them.
C15_CellsKeepTableGrammar ==
    TableDone =>
        /\ \A i \in 1..TableRowCount : \A j \in 1..RowCellCount(i) :
              /\ \A k \in DOMAIN EmittedCell(i, j) : EmittedCell(i, j)[k] # "\n"
              /\ BarePipes(EmittedCell(i, j)) = {}
        /\ TableRowCount > 0 =>
              LET lines == SplitLines(tout[1], <<>>)
              IN  /\ Len(lines) = TableRowCount + 2
                  /\ lines[Len(lines)] = <<>>
                  /\ \A k \in 1..(TableRowCount + 1) :
                        Cardinality(BarePipes(lines[k])) = Boundaries(LineCellCount(k))

\* a table with a cell whose text holds pipes and newlines has been emitted
C15_Witness ==
    /\ TableDone
    /\ TableRowCount = 2
    /\ RowCellCount(1) = 2
    /\ \E j \in 1..RowCellCount(2) :
          EmittedCell(2, j) = <<"p", "\\", "|", " ", "q", "\\", "\\", "|">>

-----------------------------------------------------------------------------
(* The index *)

\* the list item of a tab in tabs.md
IndexItem(tab) ==
    <<"-", " ", "[">> \o tabTitle(tab) \o <<"]", "(">> \o TabFile(tab) \o <<")", "\n">>

RECURSIVE IndexItems(_)
IndexItems(ts) == IF ts = <<>> THEN <<>> ELSE IndexItem(Head(ts)) \o IndexItems(Tail(ts))

\* C16: tabs.md of a successful export is the heading "# Table of Contents", an empty
\* line, one link list item per tab of the flattened tree in its order, with the title
\* of the tab and the name of the file written for it, and an empty line.
C16_IndexListsTabsInOrder ==
    (pc = "done" /\ retErr = Nil)
        => /\ HasKey(fs, IndexPath)
           /\ fs[IndexPath] =
                 <<"#", " ", "T", "a", "b", "l", "e", " ", "o", "f", " ",
                   "C", "o", "n", "t", "e", "n", "t", "s", "\n", "\n">>
                 \o IndexItems(flattenTabs(doc)) \o NL
           /\ \A i \in DOMAIN tabs : writes[i] = TabFile(flattenTabs(doc)[i])

\* the index of a tab titled a with a child tab without a title has been written
C16_Witness ==
    /\ pc = "done"
    /\ retErr = Nil
    /\ Len(doc) = 1
    /\ Len(tabs) = 2
    /\ tabTitle(tabs[1]) = <<"a">>
    /\ tabs[2].TabProperties = Nil
    /\ HasKey(fs, IndexPath)

-----------------------------------------------------------------------------
(* Errors of ExportDoc *)

\* C17: when the flattened tab list is empty ExportDoc returns the error "document has
\* no tabs" and does nothing else: no directory is made, no tab task and no download
\* task is started, no file is written.
C17_NoTabsNoEffect ==
    flattenTabs(doc) = <<>>
        => /\ pc \in {"flatten", "done"}
           /\ pc = "done" => retErr = Some("document has no tabs")
           /\ dirs = {}
           /\ spawned = 0 /\ tpc = <<>> /\ results = <<>>
           /\ allImages = <<>> /\ dpc = <<>>
           /\ fs = <<>> /\ writes = <<>>

\* ExportDoc has returned on a document without tabs
C17_Witness ==
    /\ doc = <<>>
    /\ pc = "done"
    /\ retErr = Some("document has no tabs")

\* C18: when the write of the Markdown file at position wi has failed, ExportDoc has
\* returned the error: only files of positions up to wi have been written, tabs.md has
\* not, nothing more will be written, and the files of the positions before wi are in
\* place, with their Markdown unless a later position up to wi has the same filename.
C18_WriteFailureAborts ==
    retErr = Some("failed to write")
        => /\ pc = "done"
           /\ wi \in DOMAIN results
           /\ Len(writes) <= wi
           /\ \A n \in DOMAIN writes : writes[n] = results[n].filename
           /\ ~HasKey(fs, IndexPath)
           /\ ~ENABLED WriteMarkdown /\ ~ENABLED WriteIndex
           /\ \A j \in 1..(wi - 1) :
                 /\ HasKey(fs, results[j].filename)
                 /\ (\A n \in (j + 1)..wi : results[n].filename # results[j].filename)
                       => fs[results[j].filename] = results[j].result.Markdown

\* the write of the second of two files failed: the first is in place, tabs.md is not
\* written
C18_Witness ==
    /\ retErr = Some("failed to write")
    /\ Len(tabs) = 2
    /\ wi = 2
    /\ results[1].filename # results[2].filename
    /\ fs[results[1].filename] = results[1].result.Markdown
    /\ ~HasKey(fs, IndexPath)

-----------------------------------------------------------------------------
(* The results slice *)

\* a step changes slot i of results only as the store of the task of tab i, and
\* changes no other slot with it
C20_SlotStep ==
    \A i \in (DOMAIN results) \cap (DOMAIN results') :
        results'[i] # results[i]
            => /\ tpc[i] = "store" /\ tpc'[i] = "done"
               /\ \A j \in (DOMAIN results) \ {i} : results'[j] = results[j]

\* when g.Wait has returned, slot i holds what tab i gives with tabIndex i, from 0
C20_AfterBarrier ==
    (pc = "download" \/ (pc = "write" /\ wi = 1 /\ writes = <<>>))
        => /\ Len(results) = Len(tabs)
           /\ \A i \in DOMAIN tabs :
                 results[i] = [title |-> tabTitle(tabs[i]),
                               filename |-> sanitizeFilename(tabTitle(tabs[i])) \o <<".", "m", "d">>,
                               result |-> ConvertTab(tabs[i], tabTitle(tabs[i]), i - 1)]

\* C20: each tab task writes the results slot of its own position and no other, no slot
\* is written by two tasks, and once the barrier is passed slot i holds the title, the
\* filename and the ConvertTab result of flattened tab i, computed with tabIndex i.
C20_OwnSlotOnly == []C20_AfterBarrier /\ [][C20_SlotStep]_vars

\* two tabs are past the barrier, the image of the second named after tabIndex 1
C20_Witness ==
    /\ pc = "download"
    /\ Len(tabs) = 2
    /\ results[1] # results[2]
    /\ results[2].result.Images # <<>>
    /\ results[2].result.Images[1].Filename
          = <<"t", "a", "b", "1", "_", "i", "m", "a", "g", "e", "_", "0", "0", "1", ".", "j", "p", "g">>

------------------------------------------------------------------------------
(* C19 *)

\* the download tasks that have not returned
Unfinished == {k \in DOMAIN dpc : dpc[k] # "done"}

\* a task that returns once the context is cancelled has not put the image in its file:
\* the files are as before, or the file of the task was made and left empty; the failure
\* is one more warning, the task gives its slot back, and no file goes away
C19_CancelStep ==
    \A k \in Unfinished :
        (ctxDone /\ dpc'[k] = "done")
            => /\ fs' = fs \/ fs' = WriteFile(fs, imagePath(allImages[k]), <<>>)
               /\ \A p \in DOMAIN fs : HasKey(fs', p)
               /\ Len(warnings') = Len(warnings) + 1
               /\ sem' = sem - 1

\* a step that cancels the context leaves the files as they are
C19_CancelKeepsFiles == (~ctxDone /\ ctxDone') => fs' = fs

\* past the download phase of a cancelled export every task has returned, no slot is held
C19_PhaseOver ==
    (ctxDone /\ pc \in {"write", "done"})
        => /\ Unfinished = {}
           /\ sem = 0

\* C19: when the context is cancelled during the image download phase, every download
\* that has not completed, in flight or waiting for a slot, ends without completing its
\* transfer; the phase still ends, every task having released its slot; and the files
\* already written are not removed.
C19_CancelEndsDownloads ==
    /\ [][C19_CancelStep /\ C19_CancelKeepsFiles]_vars
    /\ []C19_PhaseOver
    /\ ((ctxDone /\ pc \in {"download", "waitDl"}) ~> (pc \in {"write", "done"}))

\* the export went on after a cancellation that found one image in its file and left
\* another one out with a warning
C19_Witness ==
    /\ ctxDone
    /\ pc = "write"
    /\ Len(allImages) >= 2
    /\ \E j, k \in DOMAIN allImages :
          /\ j # k
          /\ HasKey(fs, imagePath(allImages[j]))
          /\ fs[imagePath(allImages[j])] = allImages[j].ref.ContentURI
          /\ ~HasKey(fs, imagePath(allImages[k]))
          /\ allImages[k].ref.ContentURI \notin badURIs
    /\ warnings # <<>>

------------------------------------------------------------------------------
(* C21 *)

\* the number of images the tab results hold
RECURSIVE ImagesIn(_)
ImagesIn(rs) == IF rs = <<>> THEN 0 ELSE Len(Head(rs).result.Images) + ImagesIn(Tail(rs))

\* image k is in its file
Downloaded(k) ==
    /\ HasKey(fs, imagePath(allImages[k]))
    /\ fs[imagePath(allImages[k])] = allImages[k].ref.ContentURI

\* the warnings recorded for image k
WarningsOf(k) == {i \in DOMAIN warnings : warnings[i] = WarningOf(k)}

\* a task goes from waiting to in flight to done and stays there; the warnings grow by
\* one, the warning of the one task that ends in the step, whose download failed
C21_AttemptStep ==
    /\ \A k \in (DOMAIN dpc) \cap (DOMAIN dpc') :
          dpc'[k] # dpc[k] => <<dpc[k], dpc'[k]>> \in {<<"wait", "inflight">>, <<"inflight", "done">>}
    /\ (warnings' # warnings /\ warnings' # <<>>)
          => \E k \in DOMAIN dpc :
                /\ dpc[k] = "inflight" /\ dpc'[k] = "done"
                /\ DownloadFails(k)
                /\ warnings' = Append(warnings, WarningOf(k))

\* downloadImages has returned
DownloadsOver == pc \in {"write", "done"} /\ allImages # <<>>

\* every image of the tab results has one task, which is done, and one outcome
C21_OneOutcome ==
    DownloadsOver
        => /\ Len(allImages) = ImagesIn(results)
           /\ DOMAIN dpc = DOMAIN allImages
           /\ \A k \in DOMAIN allImages :
                 /\ dpc[k] = "done"
                 /\ \/ Downloaded(k) /\ WarningsOf(k) = {}
                    \/ ~Downloaded(k) /\ Cardinality(WarningsOf(k)) = 1
           /\ Len(warnings) = Cardinality({k \in DOMAIN allImages : DownloadFails(k)})

\* C21: every ImageRequest collected from the tab results gets one download attempt and
\* one outcome: after the download phase each request is either downloaded or has one
\* warning, none is skipped or attempted twice, and there are as many warnings as
\* failed downloads, in every interleaving.
C21_EveryRequestOnce == []C21_OneOutcome /\ [][C21_AttemptStep]_vars

\* three images were collected from two tabs; the first failed, the others are in
\* their files
C21_Witness ==
    /\ DownloadsOver
    /\ Len(results) = 2
    /\ Len(allImages) = 3
    /\ DownloadFails(1) /\ ~Downloaded(1) /\ warnings = <<WarningOf(1)>>
    /\ Downloaded(2) /\ Downloaded(3)

------------------------------------------------------------------------------
(* C22 *)

\* the inline objects of the tab that hold an image with a content URI
ResolvedIds ==
    IF ctab.DocumentTab[1].InlineObjects = Nil THEN {} ELSE {"o1", "o2"}

\* the paragraph element is an inline image reference that leads to no image
DeadReference(pe) ==
    pe.InlineObjectElement # Nil /\ pe.InlineObjectElement[1].InlineObjectId \notin ResolvedIds

HasDeadReference(e) ==
    e.Paragraph # Nil /\ \E i \in DOMAIN e.Paragraph[1].Elements : DeadReference(e.Paragraph[1].Elements[i])

\* the elements without the references that lead to no image
RECURSIVE LiveElements(_)
LiveElements(pes) ==
    IF pes = <<>> THEN <<>>
    ELSE (IF DeadReference(Head(pes)) THEN <<>> ELSE <<Head(pes)>>) \o LiveElements(Tail(pes))

WithoutDeadReferences(e) ==
    [e EXCEPT !.Paragraph = Some([e.Paragraph[1] EXCEPT !.Elements = LiveElements(@)])]

\* the images recorded by the step
NewImages == SubSeq(cv'.images, Len(cv.images) + 1, Len(cv'.images))

\* the identifiers of the inline image references of the elements that lead to an image
RECURSIVE LiveIds(_)
LiveIds(pes) ==
    IF pes = <<>> THEN <<>>
    ELSE (IF Head(pes).InlineObjectElement # Nil /\ ~DeadReference(Head(pes))
          THEN <<Head(pes).InlineObjectElement[1].InlineObjectId>> ELSE <<>>)
         \o LiveIds(Tail(pes))

\* a paragraph with references that lead to no image is converted as the paragraph
\* without them is: same text, same tracker; the counter goes up by the number of
\* references that lead to an image, one ImageRequest for each, in order
C22_DeadReferenceStep ==
    (last' # last /\ last' # Nil /\ HasDeadReference(last'[1]))
        => /\ cv' = convertStructuralElement([cv EXCEPT !.buf = <<>>], ctab, WithoutDeadReferences(last'[1]))
           /\ cv'.imageCount = cv.imageCount + Len(LiveIds(last'[1].Paragraph[1].Elements))
           /\ [k \in DOMAIN NewImages |-> NewImages[k].ObjectID] = LiveIds(last'[1].Paragraph[1].Elements)
           /\ Len(cv'.images) >= Len(cv.images)

\* C22: an inline image reference that does not resolve through the tab's inline-object
\* mapping, or whose embedded image has no content URI, renders as the empty string,
\* creates no ImageRequest and leaves the image counter unchanged; conversion goes on
\* with the next element.
C22_DeadReferenceIsSkipped == [][C22_DeadReferenceStep]_vars

\* the paragraph x, a reference to an image without content URI, x, a reference to o1
\* was converted: the text holds both x and the one image, numbered 001
C22_Witness ==
    /\ last = Some(ImageParagraph(Nil, "nouri", "o1"))
    /\ ResolvedIds # {}
    /\ cv.tabIndex = 0
    /\ cv.imageCount = 1
    /\ Len(cv.images) = 1
    /\ cv.images[1].ObjectID = "o1"
    /\ cv.buf = <<"x", "x", "!", "[">> \o cv.images[1].Filename
                 \o <<"]", "(", "i", "m", "a", "g", "e", "s", "/">> \o cv.images[1].Filename
                 \o <<")", "\n", "\n">>

------------------------------------------------------------------------------
(* C23 *)

\* the decimal text of the tab indexes of TabIndexes
TabIndexText == IF cv.tabIndex = 0 THEN <<"0">> ELSE <<"1", "1">>

\* k in three digits, for k below 10
ThreeDigits(k) == <<"0", "0", <<"0", "1", "2", "3", "4", "5", "6", "7", "8", "9">>[k + 1]>>

\* the extension of the images of the model: o1 is at u.png, o2 at u2
ExtensionOf(id) == IF id = "o1" THEN <<".", "p", "n", "g">> ELSE <<".", "j", "p", "g">>

\* C23: at every point of a tab's conversion the image counter equals the number of
\* ImageRequests recorded so far, and the k-th ImageRequest, in document order, images
\* in list items and table cells included, is named
\* tab<tabIndex>_image_<k in three digits><ext>.
C23_CounterNamesImages ==
    /\ cv.imageCount = Len(cv.images)
    /\ Len(cv.images) < 10
    /\ \A k \in DOMAIN cv.images :
          cv.images[k].Filename
              = <<"t", "a", "b">> \o TabIndexText \o <<"_", "i", "m", "a", "g", "e", "_">>
                \o ThreeDigits(k) \o ExtensionOf(cv.images[k].ObjectID)

\* a list item with two images, then a table whose first cell holds no image and whose
\* other cells hold one each: the tab at position 11 has its images 001 to 004
C23_Witness ==
    /\ Len(hist) = 2
    /\ IsListItem(hist[1])
    /\ hist[2].Table # Nil
    /\ cv.tabIndex = 11
    /\ cv.imageCount = 4
    /\ [k \in 1..4 |-> cv.images[k].ObjectID] = <<"o1", "o2", "o2", "o1">>
    /\ cv.images[4].Filename
          = <<"t", "a", "b", "1", "1", "_", "i", "m", "a", "g", "e", "_", "0", "0", "4", ".", "p", "n", "g">>

------------------------------------------------------------------------------
(* C24 *)

\* the named heading styles and their levels
HeadingLevels ==
    [st \in {"HEADING_1", "HEADING_2", "HEADING_3", "HEADING_4", "HEADING_5", "HEADING_6",
             "TITLE", "SUBTITLE"} |->
        CASE st = "HEADING_1" -> 1 [] st = "HEADING_2" -> 2 [] st = "HEADING_3" -> 3
          [] st = "HEADING_4" -> 4 [] st = "HEADING_5" -> 5 [] st = "HEADING_6" -> 6
          [] st = "TITLE" -> 1 [] st = "SUBTITLE" -> 2]

\* the paragraph converted and its named style
LastParagraph == last[1].Paragraph[1]
LastStyle == IF LastParagraph.ParagraphStyle = Nil THEN "" ELSE LastParagraph.ParagraphStyle[1].NamedStyleType

\* the rendered text of the paragraphs of StyleTexts, without the white space around it
TrimmedText(t) ==
    CASE t = TextX -> <<"x">>
      [] t = <<TextRun(<<" ", "x", " ", "\n">>, Nil)>> -> <<"x">>
      [] t = <<TextRun(NL, Nil)>> -> <<>>
      [] t = <<TextRun(<<" ", "\n">>, Nil)>> -> <<>>
      [] OTHER -> <<"a", "\n", "\n", "-", "-", "-">>

\* the ATX heading of the level and the text, and the blank line after it
AtxHeading(level, text) ==
    SubSeq(<<"#", "#", "#", "#", "#", "#">>, 1, level) \o <<" ">> \o text \o <<"\n", "\n">>

HeadingConverted == last # Nil /\ LastStyle \in DOMAIN HeadingLevels

\* C24: every paragraph that carries a named heading style, has no bullet and whose
\* rendered text is not blank is emitted as an ATX heading of the mapped level (TITLE
\* as level 1, SUBTITLE as level 2) followed by a blank line.
C24_HeadingStyleGivesAtxHeading ==
    (HeadingConverted /\ LastParagraph.Bullet = Nil /\ TrimmedText(LastParagraph.Elements) # <<>>)
        => cv.buf = AtxHeading(HeadingLevels[LastStyle], TrimmedText(LastParagraph.Elements))

\* the statement for every paragraph that carries a named heading style
C24_EveryHeadingStyle ==
    HeadingConverted
        => cv.buf = AtxHeading(HeadingLevels[LastStyle], TrimmedText(LastParagraph.Elements))

\* the SUBTITLE paragraph of x between spaces came out as the level 2 heading x
C24_Witness ==
    /\ last = Some(Paragraph("SUBTITLE", Nil, <<TextRun(<<" ", "x", " ", "\n">>, Nil)>>))
    /\ cv.buf = <<"#", "#", " ", "x", "\n", "\n">>

------------------------------------------------------------------------------
(* C25 *)

\* the rendered text of the paragraphs of StyleTexts, without the newlines at its end
TextWithoutEndNewlines(t) ==
    CASE t = TextX -> <<"x">>
      [] t = <<TextRun(<<" ", "x", " ", "\n">>, Nil)>> -> <<" ", "x", " ">>
      [] t = <<TextRun(NL, Nil)>> -> <<>>
      [] t = <<TextRun(<<" ", "\n">>, Nil)>> -> <<" ">>
      [] OTHER -> <<"a", "\n", "\n", "-", "-", "-", "\n", " ", " ">>

\* a paragraph without a bullet and without a heading style was converted
NormalConverted ==
    last # Nil /\ LastParagraph.Bullet = Nil /\ LastStyle \notin DOMAIN HeadingLevels

\* C25: for a paragraph with no bullet and no heading style, convertParagraph emits a
\* single newline when the rendered text is blank after trimming, and otherwise emits
\* the rendered text without the newlines at its end, the white space before it and
\* the spaces after it kept, followed by a blank line.
C25_NormalParagraphText ==
    NormalConverted
        => cv.buf = IF TrimmedText(LastParagraph.Elements) = <<>> THEN NL
                    ELSE TextWithoutEndNewlines(LastParagraph.Elements) \o <<"\n", "\n">>

\* the statement with the text trimmed of all white space at both ends
C25_TrimmedOnBothSides ==
    NormalConverted
        => cv.buf = IF TrimmedText(LastParagraph.Elements) = <<>> THEN NL
                    ELSE TrimmedText(LastParagraph.Elements) \o <<"\n", "\n">>

\* the paragraph of x between spaces, of no named style, came out with its spaces
C25_Witness ==
    /\ NormalConverted
    /\ LastParagraph.ParagraphStyle = Nil
    /\ LastParagraph.Elements = <<TextRun(<<" ", "x", " ", "\n">>, Nil)>>
    /\ cv.buf = <<" ", "x", " ", "\n", "\n">>

------------------------------------------------------------------------------
(* C26 *)

\* a list item was converted; its list identifier and nesting level
ItemConverted == last # Nil /\ LastParagraph.Bullet # Nil
LastListId == LastParagraph.Bullet[1].ListId
LastLevel == LastParagraph.Bullet[1].NestingLevel

\* the tab's list definitions hold a numbered glyph type for the item's list and level:
\* the lists named after a numbered glyph type have it at the levels 0..MaxLevel, the
\* list "mixed" has one at level 0
NumberedInTab ==
    /\ ctab.DocumentTab[1].Lists # Nil
    /\ LastLevel <= MaxLevel
    /\ \/ LastListId \in {"DECIMAL", "ALPHA", "UPPER_ALPHA", "ROMAN", "UPPER_ROMAN", "ZERO_DECIMAL"}
       \/ LastListId = "mixed" /\ LastLevel = 0

\* the number of the item, below 10, as the tracker counts it
ItemNumberText ==
    <<"0", "1", "2", "3", "4", "5", "6", "7", "8", "9">>[cv.listState.itemCounts[1][LastLevel] + 1]

\* two spaces for each level
RECURSIVE IndentOf(_)
IndentOf(level) == IF level = 0 THEN <<>> ELSE <<" ", " ">> \o IndentOf(level - 1)

\* C26: a list item is rendered as ordered exactly when the tab's list definitions hold,
\* for the item's list identifier and nesting level, a glyph type in {DECIMAL, ALPHA,
\* UPPER_ALPHA, ROMAN, UPPER_ROMAN, ZERO_DECIMAL}; in every other case (empty or unknown
\* list identifier, no list map, no list properties, nesting level beyond the defined
\* levels, other glyph type) it is rendered as unordered with "- ", and a line comes out.
C26_OrderedExactlyWhenNumbered ==
    ItemConverted
        => cv.buf = IndentOf(LastLevel)
                    \o (IF NumberedInTab THEN <<ItemNumberText, ".", " ">> ELSE <<"-", " ">>)
                    \o TrimmedText(LastParagraph.Elements) \o NL

\* an item of the list DECIMAL at level 1, after another one, came out numbered 2
C26_Witness ==
    /\ ItemConverted
    /\ LastListId = "DECIMAL"
    /\ LastLevel = 1
    /\ cv.buf = <<" ", " ", "2", ".", " ", "x", "\n">>

------------------------------------------------------------------------------
(* C27 *)

\* C27: after every list item processed by handleListItem, for any sequence of list
\* items and paragraphs without a bullet, the tracker holds no counter for a nesting
\* level deeper than its tracked nesting level, the counter at the tracked level is at
\* least 1, and the tracked list identifier is the identifier of that item.
C27_TrackerAfterItem ==
    (last # Nil /\ IsListItem(last[1]))
        => /\ cv.listState.itemCounts # Nil
           /\ \A k \in DOMAIN cv.listState.itemCounts[1] : k <= cv.listState.nestingLevel
           /\ HasKey(cv.listState.itemCounts[1], cv.listState.nestingLevel)
           /\ cv.listState.itemCounts[1][cv.listState.nestingLevel] >= 1
           /\ cv.listState.listID = ItemList(last[1])
           /\ cv.listState.nestingLevel = ItemLevel(last[1])

\* after items at the levels 0, 1 and 0 of one list the tracker counts two items at
\* level 0 and none at level 1
C27_Witness ==
    /\ Len(hist) = 3
    /\ \A k \in 1..3 : IsListItem(hist[k]) /\ ItemList(hist[k]) = "L2"
    /\ <<ItemLevel(hist[1]), ItemLevel(hist[2]), ItemLevel(hist[3])>> = <<0, 1, 0>>
    /\ last = Some(hist[3])
    /\ cv.listState = [listID |-> "L2", nestingLevel |-> 0, itemCounts |-> Some((0 :> 2))]

====
